---- MODULE Spec2Model ----
(***************************************************************************)
(* A model of the persona-driven document intelligence pipeline:           *)
(* text utilities (src/src/utils.py), the ranking engine                   *)
(* (src/src/ranking_engine.py), the content extractor                      *)
(* (src/src/content_extractor.py), the persona analyzer                    *)
(* (src/src/persona_analyzer.py), the document processor                   *)
(* (src/src/document_processor.py) and the entry point (src/main.py).      *)
(*                                                                         *)
(* Text is a sequence of one-character strings.  Scores are exact          *)
(* rationals written as integers: a factor f in [0,1] is the integer       *)
(* f * Scale, a final score is the integer score * 100 * Scale.  The       *)
(* Python code computes the same quantities in binary floating point.      *)
(***************************************************************************)
EXTENDS Integers, Sequences, FiniteSets, TLC

VARIABLES
    phase,          \* which component's operations this behaviour exercises, and how far it got
    persona_context,\* the PersonaContext of the request
    sections,       \* the batch of ExtractedSections handed to rank_sections
    ranked_sections,\* the list returned by rank_sections
    max_sections,   \* filter_top_sections' max_sections argument
    min_score,      \* filter_top_sections' min_score_threshold argument
    top_sections,   \* the list returned by filter_top_sections
    current_document, \* the document dictionary handed to extract_sections
    page_index,     \* how many pages of it extract_sections' loop has done
    extracted_sections, \* extract_sections' list of the sections of the pages done
    filtered_sections,  \* the list returned by extract_sections
    page_tiers,     \* for each page done: which tiers of _extract_page_sections ran, on what
    first_text, \* the text handed to extract_keywords, and calculate_text_similarity's first
    second_text, \* calculate_text_similarity's second text
    similarity,     \* calculate_text_similarity(text1, text2), or -1 before the call
    similarity_swapped, \* calculate_text_similarity(text2, text1), or -1 before the call
    keyword_limit, \* extract_keywords' max_keywords argument
    found_keywords, \* the list extract_keywords returned, in a list of one; empty before the call
    found_again, \* the same for the space-joined keywords; empty before the call
    job_to_be_done, \* the job string handed to analyze_persona
    job_clean,      \* the cleaned job string, in a list of one; empty before the call
    job_intent,     \* the job_intent of the PersonaContext built, or "" before the call
    context_runs,   \* for each run of analyze_persona done: the lists of the PersonaContext it built
    arguments,      \* main: the persona, the job and the PDF files of the documents directory
    loaded_documents, \* main: the documents load_documents returned
    document_index, \* main: how many documents the loop over extract_sections has done
    core_sections,  \* main: extracted_sections, each section as <<file, page number>>
    ranking_input,  \* main: the list handed to rank_sections, in a list of one; empty before the call
    steps_done,     \* main: the components that were called
    outcome,        \* main: how the run ended, "running" before
    calls           \* main: the calls of the components made so far, in order

rank_vars == <<sections, ranked_sections, max_sections, min_score, top_sections>>
extract_vars == <<current_document, page_index, extracted_sections, filtered_sections,
                  page_tiers>>

utils_vars == <<first_text, second_text, similarity, similarity_swapped, keyword_limit, found_keywords, found_again>>

persona_vars == <<job_to_be_done, job_clean, job_intent, context_runs>>

main_vars == <<arguments, loaded_documents, document_index, core_sections, ranking_input,
               steps_done, outcome, calls>>

vars == <<phase, persona_context, rank_vars, extract_vars, utils_vars, persona_vars, main_vars>>

-----------------------------------------------------------------------------
(* Characters and strings                                                   *)

UpperCase == <<"A","B","C","D","E","F","G","H","I","J","K","L","M",
               "N","O","P","Q","R","S","T","U","V","W","X","Y","Z">>
LowerCase == <<"a","b","c","d","e","f","g","h","i","j","k","l","m",
               "n","o","p","q","r","s","t","u","v","w","x","y","z">>
Digits == {"0","1","2","3","4","5","6","7","8","9"}
Whitespace == {" ", "\n", "\t"}
\* the bullet character U+2022, one character of a text
Bullet == "<U+2022>"

UpperSet == {UpperCase[i] : i \in DOMAIN UpperCase}
LetterSet == UpperSet \cup {LowerCase[i] : i \in DOMAIN LowerCase}
LowerMap == [c \in UpperSet |-> LowerCase[CHOOSE i \in DOMAIN UpperCase : UpperCase[i] = c]]

IsUpper(c) == c \in UpperSet
IsLetter(c) == c \in LetterSet
\* the regex class \w (ASCII part): letters, digits and the underscore
IsWordChar(c) == IsLetter(c) \/ c \in Digits \/ c = "_"

LowerChar(c) ==
    IF IsUpper(c) THEN LowerMap[c] ELSE c

\* the list of the n values f[1], ..., f[n]
ListOf(f, n) == SubSeq(f, 1, n)

\* str.lower()
lower(text) == ListOf([i \in 1..Len(text) |-> LowerChar(text[i])], Len(text))

\* the Python test `pat in text` on strings
Contains(text, pat) ==
    \/ Len(pat) = 0
    \/ \E i \in 1..(Len(text) - Len(pat) + 1) :
          text[i] = pat[1] /\ SubSeq(text, i, i + Len(pat) - 1) = pat

NotSpace(c) == c \notin Whitespace

\* membership of a character in a named class of the regular expressions:
\* "word" is \w, "nonspace" \S, "space" \s, "upper" [A-Z], "letter" [a-zA-Z],
\* "digit" \d, "upper_space" [A-Z\s], "lower_space" [a-z\s],
\* "letter_space" [A-Za-z\s], "heading_text" [^.!?\n], "bullet" [<U+2022>\-\*],
\* "roman" [IVX], "sentence_text" [^.!?]; any other name is that one character
InClass(c, class) ==
    CASE class = "word" -> IsWordChar(c)
      [] class = "nonspace" -> NotSpace(c)
      [] class = "space" -> c \in Whitespace
      [] class = "upper" -> IsUpper(c)
      [] class = "letter" -> IsLetter(c)
      [] class = "digit" -> c \in Digits
      [] class = "upper_space" -> IsUpper(c) \/ c \in Whitespace
      [] class = "lower_space" -> (IsLetter(c) /\ ~IsUpper(c)) \/ c \in Whitespace
      [] class = "letter_space" -> IsLetter(c) \/ c \in Whitespace
      [] class = "heading_text" -> c \notin {".", "!", "?", "\n"}
      [] class = "bullet" -> c \in {Bullet, "-", "*"}
      [] class = "roman" -> c \in {"I", "V", "X"}
      [] class = "sentence_text" -> c \notin {".", "!", "?"}
      [] OTHER -> c = class

\* the elements of a set of integers between lo and hi, in ascending order
RECURSIVE SortedBetween(_, _, _)
SortedBetween(S, lo, hi) ==
    IF lo > hi THEN << >>
    ELSE IF lo = hi THEN (IF lo \in S THEN <<lo>> ELSE << >>)
    ELSE SortedBetween(S, lo, (lo + hi) \div 2) \o SortedBetween(S, ((lo + hi) \div 2) + 1, hi)

\* the end of the maximal run of characters of a class that starts at p
RunEnd(text, p, class) ==
    CHOOSE e \in p..Len(text) :
        /\ \A m \in p..e : InClass(text[m], class)
        /\ (e = Len(text) \/ ~InClass(text[e + 1], class))

\* the maximal runs of characters of one class, left to right
Runs(text, class) ==
    LET Between(starts, ends) ==
            ListOf([k \in 1..Len(starts) |-> SubSeq(text, starts[k], ends[k])], Len(starts))
    IN  Between(SortedBetween({i \in 1..Len(text) :
                                  /\ InClass(text[i], class)
                                  /\ (i = 1 \/ ~InClass(text[i - 1], class))},
                              1, Len(text)),
                SortedBetween({i \in 1..Len(text) :
                                  /\ InClass(text[i], class)
                                  /\ (i = Len(text) \/ ~InClass(text[i + 1], class))},
                              1, Len(text)))

\* str.split() with no argument
split(text) == Runs(text, "nonspace")

\* str.count(ch) for a one-character ch
CountChar(text, ch) == Cardinality({i \in 1..Len(text) : text[i] = ch})

\* re.findall(r'\b[a-zA-Z]{3,}\b', text): a run of word characters matches
\* when it is made of letters only and has at least three of them
findall_words(text) ==
    SelectSeq(Runs(text, "word"),
              LAMBDA r : Len(r) >= 3 /\ \A k \in 1..Len(r) : IsLetter(r[k]))

Range(s) == {s[i] : i \in DOMAIN s}

\* n copies of text, one after the other
Repeat(text, n) ==
    ListOf([i \in 1..(n * Len(text)) |-> text[((i - 1) % Len(text)) + 1]], n * Len(text))

\* the lists of a list, one after the other
RECURSIVE ConcatBetween(_, _, _)
ConcatBetween(lists, lo, hi) ==
    IF lo > hi THEN << >>
    ELSE IF lo = hi THEN lists[lo]
    ELSE ConcatBetween(lists, lo, (lo + hi) \div 2) \o ConcatBetween(lists, ((lo + hi) \div 2) + 1, hi)

Concat(lists) == ConcatBetween(lists, 1, Len(lists))

\* the least element of a non-empty set of integers
MinOf(S) == CHOOSE i \in S : \A j \in S : i <= j
\* the greatest element of a non-empty set of integers
MaxOf(S) == CHOOSE i \in S : \A j \in S : i >= j

\* a finite set of integers in ascending order
SortedSeq(S) == IF S = {} THEN << >> ELSE SortedBetween(S, MinOf(S), MaxOf(S))

\* text[a:b] of Python, for 0 <= a and 0 <= b
Slice(text, a, b) == SubSeq(text, a + 1, IF b <= Len(text) THEN b ELSE Len(text))

\* str.strip()
strip(text) ==
    IF \A i \in 1..Len(text) : text[i] \in Whitespace THEN << >>
    ELSE LET first == CHOOSE i \in 1..Len(text) :
                          text[i] \notin Whitespace /\ \A j \in 1..(i - 1) : text[j] \in Whitespace
             last == CHOOSE i \in 1..Len(text) :
                          text[i] \notin Whitespace /\ \A j \in (i + 1)..Len(text) : text[j] \in Whitespace
         IN  SubSeq(text, first, last)

\* str.split(ch) for a one-character separator
split_on(text, ch) ==
    LET Between(cuts) ==
            ListOf([k \in 1..(Len(cuts) - 1) |-> SubSeq(text, cuts[k] + 1, cuts[k + 1] - 1)],
                   Len(cuts) - 1)
    IN  Between(<<0>> \o SortedSeq({i \in 1..Len(text) : text[i] = ch}) \o <<Len(text) + 1>>)

\* sep.join(parts)
join(sep, parts) ==
    Concat([k \in 1..(2 * Len(parts) - 1) |-> IF k % 2 = 1 THEN parts[(k + 1) \div 2] ELSE sep])

\* str.startswith and str.endswith
startswith(text, pat) == Len(pat) <= Len(text) /\ SubSeq(text, 1, Len(pat)) = pat
endswith(text, pat) ==
    Len(pat) <= Len(text) /\ SubSeq(text, Len(text) - Len(pat) + 1, Len(text)) = pat

\* pat stands in text at position q (1-based)
StandsAt(text, q, pat) ==
    q >= 1 /\ q + Len(pat) - 1 <= Len(text) /\ SubSeq(text, q, q + Len(pat) - 1) = pat

\* str.find(pat): the 0-based index of the first occurrence, or -1
find(text, pat) ==
    LET First(hits) == IF hits = {} THEN -1 ELSE MinOf(hits) - 1
    IN  First({i \in 1..(Len(text) - Len(pat) + 1) : SubSeq(text, i, i + Len(pat) - 1) = pat})

UpperMap == [c \in {LowerCase[i] : i \in DOMAIN LowerCase} |->
                UpperCase[CHOOSE i \in DOMAIN LowerCase : LowerCase[i] = c]]
UpperChar(c) == IF c \in DOMAIN UpperMap THEN UpperMap[c] ELSE c

\* str.title(): a letter that follows a letter is lowered, any other letter
\* is raised
title_case(text) ==
    ListOf([i \in 1..Len(text) |->
               IF i > 1 /\ IsLetter(text[i - 1]) THEN LowerChar(text[i]) ELSE UpperChar(text[i])],
           Len(text))

\* one item of a regular expression: a character class repeated between min
\* and max times; max = -1 is no upper limit
Item(class, min, max) == [class |-> class, min |-> min, max |-> max]

\* re.search(pat, text) for a pattern that is a sequence of items; MatchesAt
\* says that the items from the k-th on match at position p (1-based)
RECURSIVE MatchesAt(_, _, _, _)
MatchesAt(text, p, pat, k) ==
    IF k > Len(pat) THEN TRUE
    ELSE \E n \in pat[k].min..(IF 0 <= pat[k].max /\ pat[k].max < Len(text) - p + 1
                                THEN pat[k].max ELSE Len(text) - p + 1) :
            /\ \A m \in p..(p + n - 1) : InClass(text[m], pat[k].class)
            /\ MatchesAt(text, p + n, pat, k + 1)

\* match.start() of re.search(pat, text), 0-based, or -1 when nothing matches
search_start(text, pat) ==
    LET First(hits) == IF hits = {} THEN -1 ELSE MinOf(hits) - 1
    IN  First({p \in 1..Len(text) : InClass(text[p], pat[1].class) /\ MatchesAt(text, p, pat, 1)})

\* re.split(r'\n\s*\n', text): inside one run of whitespace the separator is
\* the stretch from its first newline to its last, when it has two or more
split_paragraphs(text) ==
    LET SameRun(a, b) == \A m \in a..b : text[m] \in Whitespace
        LastOf(newlines, a) == MaxOf({b \in newlines : b >= a /\ SameRun(a, b)})
        Pieces(newlines, starts) ==
            ListOf([k \in 1..(Len(starts) + 1) |->
                       SubSeq(text,
                              IF k = 1 THEN 1 ELSE LastOf(newlines, starts[k - 1]) + 1,
                              IF k = Len(starts) + 1 THEN Len(text) ELSE starts[k] - 1)],
                   Len(starts) + 1)
        Split(newlines) ==
            Pieces(newlines,
                   SortedSeq({a \in newlines : /\ \A b \in newlines : b < a => ~SameRun(b, a)
                                               /\ \E b \in newlines : b > a /\ SameRun(a, b)}))
    IN  Split({i \in 1..Len(text) : text[i] = "\n"})

-----------------------------------------------------------------------------
(* Exact arithmetic on scores                                               *)

\* the integer that stands for the factor 1.0
Scale == 18 * 1000

\* n / d, which the model's inputs keep exact
Exact(n, d) == CHOOSE q \in {n \div d} : q * d = n

Min(a, b) == IF a <= b THEN a ELSE b
Max(a, b) == IF a >= b THEN a ELSE b

RECURSIVE SumSeq(_)
SumSeq(s) == IF s = << >> THEN 0 ELSE Head(s) + SumSeq(Tail(s))

-----------------------------------------------------------------------------
(* utils.py                                                                 *)

\* a similarity that divides the overlap by the number of words of the first
\* text instead of the union
similarity_over_first(text1, text2) ==
    LET Share(words1, words2) ==
            IF words1 = {} \/ words2 = {} THEN 0
            ELSE Exact(Scale * Cardinality(words1 \cap words2), Cardinality(words1))
    IN  IF Len(text1) = 0 \/ Len(text2) = 0 THEN 0
        ELSE Share(Range(findall_words(lower(text1))), Range(findall_words(lower(text2))))

\* calculate_text_similarity, as a factor (times Scale)
calculate_text_similarity(text1, text2) ==
    LET Jaccard(words1, words2) ==
            IF words1 = {} \/ words2 = {} THEN 0
            ELSE Exact(Scale * Cardinality(words1 \cap words2),
                       Cardinality(words1 \cup words2))
    IN  IF Len(text1) = 0 \/ Len(text2) = 0 THEN 0
        ELSE Jaccard(Range(findall_words(lower(text1))), Range(findall_words(lower(text2))))


\* the elements of a list in the order of their first appearance
Dedup(s) ==
    LET Of(firsts) == ListOf([k \in 1..Len(firsts) |-> s[firsts[k]]], Len(firsts))
    IN  Of(SortedSeq({i \in 1..Len(s) : \A j \in 1..(i - 1) : s[j] # s[i]}))

\* [kw.lower() for kw in keywords]
lower_all(keywords) == ListOf([k \in 1..Len(keywords) |-> lower(keywords[k])], Len(keywords))

\* extract_keywords: stop_words
stop_words == {
    <<"t","h","e">>, <<"a","n","d">>, <<"o","r">>, <<"b","u","t">>, <<"i","n">>, <<"o","n">>,
    <<"a","t">>, <<"t","o">>, <<"f","o","r">>, <<"o","f">>, <<"w","i","t","h">>, <<"b","y">>,
    <<"f","r","o","m">>, <<"u","p">>, <<"a","b","o","u","t">>, <<"i","n","t","o">>,
    <<"t","h","r","o","u","g","h">>, <<"d","u","r","i","n","g">>, <<"b","e","f","o","r","e">>,
    <<"a","f","t","e","r">>, <<"a","b","o","v","e">>, <<"b","e","l","o","w">>,
    <<"b","e","t","w","e","e","n">>, <<"a","m","o","n","g">>, <<"t","h","r","o","u","g","h">>,
    <<"d","u","r","i","n","g">>, <<"t","h","i","s">>, <<"t","h","a","t">>, <<"t","h","e","s","e">>,
    <<"t","h","o","s","e">>, <<"w","a","s">>, <<"w","e","r","e">>, <<"b","e","e","n">>,
    <<"h","a","v","e">>, <<"h","a","s">>, <<"h","a","d">>, <<"w","i","l","l">>,
    <<"w","o","u","l","d">>, <<"c","o","u","l","d">>, <<"s","h","o","u","l","d">>, <<"m","a","y">>,
    <<"m","i","g","h","t">>, <<"c","a","n">>, <<"m","u","s","t">>, <<"s","h","a","l","l">>,
    <<"s","u","c","h">>, <<"v","e","r","y">>, <<"m","o","r","e">>, <<"m","o","s","t">>,
    <<"s","o","m","e">>, <<"a","n","y">>, <<"a","l","l">>, <<"e","a","c","h">>,
    <<"e","v","e","r","y">>, <<"o","t","h","e","r">>, <<"a","n","o","t","h","e","r">>,
    <<"s","a","m","e">>, <<"d","i","f","f","e","r","e","n","t">> }

\* a sort by ascending frequency that is reversed afterwards: equally
\* frequent items come out in the reverse of their order in the list
sort_then_reverse(items) ==
    LET Before(k) == {j \in 1..Len(items) :
                         \/ items[j][2] > items[k][2]
                         \/ items[j][2] = items[k][2] /\ j > k}
    IN  ListOf([p \in 1..Len(items) |->
                   items[CHOOSE k \in 1..Len(items) : Cardinality(Before(k)) = p - 1]],
               Len(items))

\* sorted(items, key=frequency, reverse=True): the sort is stable, an item
\* comes after the more frequent items and after the equally frequent
\* items that precede it in the list
SortByFrequency(items) ==
    LET Before(k) == {j \in 1..Len(items) :
                         \/ items[j][2] > items[k][2]
                         \/ items[j][2] = items[k][2] /\ j < k}
    IN  ListOf([p \in 1..Len(items) |->
                   items[CHOOSE k \in 1..Len(items) : Cardinality(Before(k)) = p - 1]],
               Len(items))

\* extract_keywords(text, max_keywords)
extract_keywords(text, max_keywords) ==
    LET Top(keywords, count) == ListOf([k \in 1..count |-> keywords[k][1]], count)
        Sorted(keywords) == Top(keywords, Min(max_keywords, Len(keywords)))
        Counted(kept, keys) ==
            Sorted(SortByFrequency(
                ListOf([k \in 1..Len(keys) |->
                           <<keys[k], Cardinality({i \in 1..Len(kept) : kept[i] = keys[k]})>>],
                       Len(keys))))
        word_freq(kept) == Counted(kept, Dedup(kept))
    IN  IF Len(text) = 0 THEN << >>
        ELSE word_freq(SelectSeq(findall_words(lower(text)),
                                 LAMBDA w : w \notin stop_words /\ Len(w) > 3))

-----------------------------------------------------------------------------
(* Words and phrases the code compares texts with                           *)

SP == <<" ">>
NL == <<"\n">>

\* ranking_engine.py, _calculate_priority_boost: quality_indicators, with the
\* boosts in tenths
quality_indicators == <<
    << <<"s","p","e","c","i","f","i","c"," ","e","x","a","m","p","l","e","s">>, 15 >>,
    << <<"d","e","t","a","i","l","e","d"," ","i","n","f","o","r","m","a","t","i","o","n">>, 12 >>,
    << <<"s","t","e","p","-","b","y","-","s","t","e","p">>, 20 >>,
    << <<"c","o","m","p","r","e","h","e","n","s","i","v","e">>, 10 >>,
    << <<"p","r","a","c","t","i","c","a","l">>, 15 >>,
    << <<"e","s","s","e","n","t","i","a","l">>, 13 >>,
    << <<"i","m","p","o","r","t","a","n","t">>, 10 >>,
    << <<"k","e","y">>, 12 >>,
    << <<"c","r","i","t","i","c","a","l">>, 14 >>,
    << <<"m","a","i","n">>, 11 >>,
    << <<"p","r","i","m","a","r","y">>, 11 >>,
    << <<"b","e","s","t">>, 13 >> >>

\* ranking_engine.py, _calculate_priority_boost: generic_patterns
generic_patterns == <<
    <<"g","e","n","e","r","a","l"," ","o","v","e","r","v","i","e","w">>,
    <<"i","n","t","r","o","d","u","c","t","i","o","n"," ","t","o">>,
    <<"b","a","c","k","g","r","o","u","n","d"," ","i","n","f","o","r","m","a","t","i","o","n">>,
    <<"t","h","e","o","r","e","t","i","c","a","l"," ","f","r","a","m","e","w","o","r","k">>,
    <<"a","b","s","t","r","a","c","t"," ","c","o","n","c","e","p","t","s">>,
    <<"p","r","e","l","i","m","i","n","a","r","y"," ","d","i","s","c","u","s","s","i","o","n">> >>

-----------------------------------------------------------------------------
(* ranking_engine.py: tables and the factors that read text       *)

\* RankingEngine.__init__: self.weights, in hundredths.  The entry
\* 'priority_boost' is never read by _calculate_section_ranking.
weights == [relevance |-> 35, priority_boost |-> 25, diversity |-> 15,
            coverage |-> 15, section_type |-> 5, length |-> 5]

\* RankingEngine.__init__: self.section_importance, in hundredths
section_importance == [abstract |-> 90, summary |-> 85, introduction |-> 70,
                       methodology |-> 80, results |-> 90, discussion |-> 80,
                       conclusion |-> 85, content |-> 75, general |-> 60]

\* RankingEngine.__init__: self.intent_section_preference
intent_section_preference ==
    [comprehensive_review |-> <<"methodology", "results", "discussion", "conclusion", "introduction">>,
     summary |-> <<"abstract", "summary", "conclusion", "overview">>,
     comparison |-> <<"results", "discussion", "analysis", "evaluation">>,
     analysis |-> <<"results", "discussion", "methodology", "data">>,
     extraction |-> <<"methodology", "content", "details", "information">>,
     preparation |-> <<"introduction", "summary", "overview", "background">>,
     implementation |-> <<"methodology", "procedure", "process", "steps">>,
     optimization |-> <<"results", "performance", "analysis", "evaluation">>]

\* list.index(x) - 1-based here, 0-based in the code
IndexOf(s, x) == CHOOSE i \in DOMAIN s : s[i] = x /\ \A j \in 1..(i - 1) : s[j] # x

\* _calculate_coverage_score
_calculate_coverage_score(section, ctx) ==
    LET Score(covered_topics, coverage_score) ==
            Min(Scale, IF covered_topics > 1 THEN Exact(coverage_score * 11, 10)
                       ELSE coverage_score)
        Covered(covered_topics) ==
            Score(covered_topics, Exact(Scale * covered_topics, Len(ctx.priority_topics)))
        In(content_lower) ==
            Covered(Cardinality({i \in DOMAIN ctx.priority_topics :
                                    Contains(content_lower, lower(ctx.priority_topics[i]))}))
    IN  IF ctx.priority_topics = << >> THEN Scale \div 2
        ELSE In(lower(section.content))

\* _calculate_priority_boost, in tenths
priority_boost_tenths(section, ctx) ==
    LET quality_boost(content, title) ==
            SumSeq([i \in DOMAIN quality_indicators |->
                      IF Contains(content, quality_indicators[i][1])
                         \/ Contains(title, quality_indicators[i][1])
                      THEN quality_indicators[i][2] ELSE 0])
        keyword_matches(content, title, job_keywords) ==
            SumSeq([i \in DOMAIN job_keywords |->
                      (IF Contains(content, job_keywords[i]) THEN 2 ELSE 0)
                      + (IF Contains(title, job_keywords[i]) THEN 3 ELSE 0)])
        structure_boost(content) ==
            (IF CountChar(content, "\n") + 1 > 3 THEN 5 ELSE 0)
            + (IF Contains(content, <<Bullet>>) \/ Contains(content, <<"-">>) THEN 8 ELSE 0)
            + (IF \E num \in {"1", "2", "3"} : Contains(content, <<num, ".">>) THEN 10 ELSE 0)
            + (IF Len(split(content)) > 50 THEN 7 ELSE 0)
        context_boost(doc_name, top_keywords) ==
            (IF section.page_number <= 3 THEN 10
             ELSE IF section.page_number <= 6 THEN 5 ELSE 0)
            + SumSeq([i \in DOMAIN top_keywords |->
                        IF Contains(doc_name, top_keywords[i]) THEN 8 ELSE 0])
        generic_penalty(title) ==
            IF \E i \in DOMAIN generic_patterns : Contains(title, generic_patterns[i])
            THEN 0 - 10 ELSE 0
        total_boost(content, title, job_keywords) ==
            quality_boost(content, title)
            + Min(40, keyword_matches(content, title, job_keywords) * 3)
            + structure_boost(content)
            + context_boost(lower(section.document),
                            SubSeq(job_keywords, 1, Min(5, Len(job_keywords))))
            + generic_penalty(title)
    IN  Max(0, Min(100, total_boost(
            lower(section.content),
            lower(section.section_title),
            (IF ctx.job_keywords # << >>
             THEN SubSeq(ctx.job_keywords, 1, Min(10, Len(ctx.job_keywords))) ELSE << >>)
            \o SelectSeq(IF ctx.role # << >> THEN split(lower(ctx.role)) ELSE << >>,
                         LAMBDA w : Len(w) > 3))))

\* _calculate_priority_boost, as a factor (times Scale)
_calculate_priority_boost(section, ctx) ==
    priority_boost_tenths(section, ctx) * (Scale \div 10)

-----------------------------------------------------------------------------
(* content_extractor.py: titles, relevance, type and preview of a section   *)

\* ContentExtractor.__init__
min_section_length == 100
max_section_length == 2000
\* 0.01, as a factor
min_relevance_threshold == Scale \div 100

\* the start of the word ([a-z]+, case ignored) that follows the whitespace
\* (\s+) after position e, or 0 when something else follows
NextWord(text, e) ==
    LET Word(q) == IF q <= Len(text) /\ IsLetter(text[q]) THEN q ELSE 0
    IN  IF e >= 1 /\ e + 1 <= Len(text) /\ text[e + 1] \in Whitespace
        THEN Word(RunEnd(text, e + 1, "space") + 1)
        ELSE 0

\* [a-z]+(?:\s+[a-z]+){n-1} at the word that starts at p: the end of the n-th
\* word, or 0 when there are fewer than n words
RECURSIVE ChainEnd(_, _, _)
ChainEnd(text, p, n) ==
    IF p = 0 THEN 0
    ELSE IF n = 1 THEN RunEnd(text, p, "letter")
    ELSE ChainEnd(text, NextWord(text, RunEnd(text, p, "letter")), n - 1)

\* (?:k1|k2|...) at position q: the end of the first alternative that is
\* there, or 0
AlternationEnd(text, q, alternatives) ==
    LET EndOf(here) == IF here = {} THEN 0 ELSE q + Len(alternatives[MinOf(here)]) - 1
    IN  EndOf({k \in 1..Len(alternatives) : StandsAt(text, q, alternatives[k])})

\* \b([a-z]+(?:\s+[a-z]+){0,2})\s+(?:k1|k2|...) at position p, the longest
\* group first: <<start of group, end of group, end of match>> or << >>
TermBeforeAt(text, p, alternatives) ==
    LET Matched(e) == <<p, e, AlternationEnd(text, NextWord(text, e), alternatives)>>
        Longest(matches) ==
            IF matches = {} THEN << >>
            ELSE CHOOSE m \in matches : \A o \in matches : o[2] <= m[2]
    IN  IF ~IsLetter(text[p]) \/ (p > 1 /\ IsWordChar(text[p - 1])) THEN << >>
        ELSE Longest({m \in {Matched(ChainEnd(text, p, n)) : n \in 1..3} : m[3] > 0})

\* (?:how\s+to\s+|to\s+)([a-z]+(?:\s+[a-z]+){0,3}) at position p:
\* <<start of group, end of group, end of match>> or << >>
TermAfterToAt(text, p) ==
    LET Group(start, e) == IF start = 0 THEN << >> ELSE <<start, e, e>>
        Longest(start) == Group(start, MaxOf({ChainEnd(text, start, n) : n \in 1..4}))
        WordAfterTo(q) == IF StandsAt(text, q, <<"t","o">>) THEN q + 1 ELSE 0
    IN  Longest(NextWord(text, WordAfterTo(
            IF /\ StandsAt(text, p, <<"h","o","w">>)
               /\ p + 3 <= Len(text)
               /\ text[p + 3] \in Whitespace
            THEN RunEnd(text, p + 3, "space") + 1
            ELSE p)))

\* re.findall of one key pattern on lowered text, from position pos on: the
\* groups of the matches, left to right, no two overlapping
RECURSIVE findall_terms(_, _, _)
findall_terms(text, pos, alternatives) ==
    LET Rest(m) == <<SubSeq(text, m[1], m[2])>> \o findall_terms(text, m[3] + 1, alternatives)
        First(matches) ==
            IF matches = {} THEN << >>
            ELSE Rest(CHOOSE m \in matches : \A o \in matches : m[1] <= o[1])
    IN  First({IF alternatives = << >> THEN TermAfterToAt(text, p)
               ELSE TermBeforeAt(text, p, alternatives) : p \in pos..Len(text)} \ {<< >>})

\* _extract_key_terms_universal: key_patterns; each is the list of words that
\* may follow the term, the empty list stands for the "to ..." pattern
key_patterns == <<
    << <<"r","e","c","i","p","e">>, <<"m","e","t","h","o","d">>,
        <<"t","e","c","h","n","i","q","u","e">>, <<"a","p","p","r","o","a","c","h">>,
        <<"g","u","i","d","e">>, <<"t","u","t","o","r","i","a","l">> >>,
    << <<"a","n","a","l","y","s","i","s">>, <<"o","v","e","r","v","i","e","w">>,
        <<"s","u","m","m","a","r","y">>,
        <<"i","n","t","r","o","d","u","c","t","i","o","n">> >>,
    << <<"i","n","s","t","r","u","c","t","i","o","n","s">>,
        <<"i","n","s","t","r","u","c","t","i","o","n">>,
        <<"p","r","o","c","e","d","u","r","e">>, <<"p","r","o","c","e","s","s">>,
        <<"s","t","e","p","s">>, <<"s","t","e","p">> >>,
    << >>,
    << <<"i","n","g","r","e","d","i","e","n","t","s">>,
        <<"i","n","g","r","e","d","i","e","n","t">>,
        <<"c","o","m","p","o","n","e","n","t","s">>,
        <<"c","o","m","p","o","n","e","n","t">>, <<"e","l","e","m","e","n","t","s">>,
        <<"e","l","e","m","e","n","t">> >> >>

\* _extract_key_terms_universal(content)
_extract_key_terms_universal(content) ==
    LET Stripped(matches) == ListOf([k \in 1..Len(matches) |-> strip(matches[k])], Len(matches))
        Top(unique_terms) == SubSeq(unique_terms, 1, Min(3, Len(unique_terms)))
    IN  Top(Dedup(SelectSeq(
            Stripped(Concat(ListOf([k \in 1..Len(key_patterns) |->
                                       findall_terms(content, 1, key_patterns[k])],
                                   Len(key_patterns)))),
            LAMBDA t : Len(t) > 3)))

\* _is_good_original_title(title)
_is_good_original_title(title) ==
    IF Len(title) < 3 THEN FALSE
    ELSE /\ Len(title) <= 60
         /\ Len(split(title)) <= 8
         /\ title \notin {<<"F","u","l","l"," ","P","a","g","e"," ","C","o","n","t","e","n","t">>, <<"G","e","n","e","r","a","l">>,
                          <<"I","n","t","r","o","d","u","c","t","i","o","n">>, <<"C","o","n","c","l","u","s","i","o","n">>}
         /\ ~endswith(title, <<":">>)
         /\ ~Contains(title, <<"C","o","m","p","r","e","h","e","n","s","i","v","e"," ","F","o","r","m","_","C","r","e","a","t","i","o","n">>)
         /\ ~Contains(title, <<"S","c","a","n","n","e","d"," ","d","o","c","u","m","e","n","t"," ","c","o","n","t","e","n","t">>)

\* _generate_descriptive_title_enhanced(original_title, content, ...)
_generate_descriptive_title_enhanced(original_title, content) ==
    LET content_lines == split_on(content, "\n")
        Stripped(k) == strip(content_lines[k])
        \* content_lines.index(line), 1-based, or 0 when the stripped line is
        \* not an element of the list
        IndexOfLine(line) ==
            LET FirstOf(at) == IF at = {} THEN 0 ELSE MinOf(at)
            IN  FirstOf({j \in 1..Len(content_lines) : content_lines[j] = line})
        HasBody(line_index) ==
            /\ line_index >= 1
            /\ line_index + 1 <= Len(content_lines)
            /\ Len(Stripped(line_index + 1)) > 20
        IsTitleLine(line, word_count) ==
            /\ 5 <= Len(line) /\ Len(line) <= 50
            /\ word_count <= 6
            /\ IsUpper(line[1])
            /\ ~endswith(line, <<".">>)
            /\ \E i \in 1..Len(line) : IsLetter(line[i])
            /\ HasBody(IndexOfLine(line))
        FromTerms(key_terms) ==
            IF Len(key_terms) > 1
            THEN title_case(key_terms[1]) \o <<" ","a","n","d"," ">> \o title_case(key_terms[2])
            ELSE IF Len(key_terms) = 1
            THEN title_case(key_terms[1]) \o <<" ","I","n","f","o","r","m","a","t","i","o","n">>
            ELSE IF Len(original_title) > 3 THEN original_title
            ELSE <<"C","o","n","t","e","n","t"," ","S","e","c","t","i","o","n">>
        Generated(title_lines, key_terms) ==
            IF title_lines # {} THEN Stripped(MinOf(title_lines)) ELSE FromTerms(key_terms)
    IN  IF _is_good_original_title(original_title) THEN original_title
        ELSE Generated({k \in 1..Min(10, Len(content_lines)) :
                           IsTitleLine(Stripped(k), Len(split(Stripped(k))))},
                       _extract_key_terms_universal(lower(content)))

\* re.search(r'\d+\.|\*|\-|<U+2022>', content) finds something
is_structured(content) ==
    \E i \in 1..Len(content) :
        \/ content[i] \in {"*", "-", Bullet}
        \/ content[i] \in Digits /\ i < Len(content) /\ content[i + 1] = "."

\* _calculate_relevance_score_enhanced(content, title, persona_context), as a
\* factor (times Scale)
_calculate_relevance_score_enhanced(content, title, ctx) ==
    LET Tenths(n) == n * (Scale \div 10)
        Twentieths(n) == n * (Scale \div 20)
        Lowered(words) == ListOf([k \in 1..Len(words) |-> lower(words[k])], Len(words))
        role_score(content_lower, title_lower, role_words) ==
            SumSeq([k \in 1..Len(role_words) |->
                      (IF Contains(content_lower, role_words[k]) THEN Tenths(1) ELSE 0)
                    + (IF Contains(title_lower, role_words[k]) THEN Tenths(2) ELSE 0)])
        job_score(content_lower, title_lower) ==
            SumSeq([k \in 1..Len(ctx.job_keywords) |->
                      (IF Contains(content_lower, lower(ctx.job_keywords[k])) THEN Twentieths(3) ELSE 0)
                    + (IF Contains(title_lower, lower(ctx.job_keywords[k])) THEN Twentieths(5) ELSE 0)])
        quality_score(content_lower, word_count) ==
              (IF word_count > 30 THEN Tenths(1) ELSE 0)
            + (IF \E indicator \in {<<"i","n","g","r","e","d","i","e","n","t","s">>, <<"i","n","s","t","r","u","c","t","i","o","n","s">>,
                                    <<"m","e","t","h","o","d">>, <<"p","r","o","c","e","d","u","r","e">>} :
                      Contains(content_lower, indicator)
               THEN Twentieths(3) ELSE 0)
            + (IF is_structured(content) THEN Tenths(1) ELSE 0)
        Capped(score) == IF score > Scale THEN Scale ELSE score
        Score(content_lower, title_lower, role_words, word_count) ==
            Capped(role_score(content_lower, title_lower, role_words)
                   + job_score(content_lower, title_lower)
                   + quality_score(content_lower, word_count))
    IN  Score(lower(content), lower(title),
              SelectSeq(Lowered(split(ctx.role)), LAMBDA w : Len(w) > 3),
              Len(split(content)))

\* _classify_section_type_enhanced(title, content)
_classify_section_type_enhanced(title, content) ==
    LET AnyIn(text, words) == \E w \in words : Contains(text, w)
        TypeOf(title_lower, content_lower) ==
            IF AnyIn(title_lower, {<<"r","e","c","i","p","e">>, <<"d","i","s","h">>, <<"f","o","o","d">>, <<"i","n","g","r","e","d","i","e","n","t">>})
            THEN "recipe"
            ELSE IF AnyIn(title_lower, {<<"a","n","a","l","y","s","i","s">>, <<"r","e","v","i","e","w">>, <<"s","t","u","d","y">>, <<"r","e","s","e","a","r","c","h">>})
            THEN "analysis"
            ELSE IF AnyIn(title_lower, {<<"g","u","i","d","e">>, <<"t","u","t","o","r","i","a","l">>, <<"i","n","s","t","r","u","c","t","i","o","n">>, <<"h","o","w">>})
            THEN "guide"
            ELSE IF AnyIn(title_lower, {<<"o","v","e","r","v","i","e","w">>, <<"s","u","m","m","a","r","y">>, <<"i","n","t","r","o","d","u","c","t","i","o","n">>})
            THEN "overview"
            ELSE IF AnyIn(content_lower, {<<"i","n","g","r","e","d","i","e","n","t","s",":">>, <<"i","n","s","t","r","u","c","t","i","o","n","s",":">>,
                                          <<"m","e","t","h","o","d",":">>, <<"p","r","o","c","e","d","u","r","e",":">>})
            THEN "procedure"
            ELSE "content"
    IN  TypeOf(lower(title), lower(content))

\* re.split(r'[.!?]+', content)
split_sentences(content) ==
    LET punct == {".", "!", "?"}
        runs == Runs(content, "sentence_text")
    IN  (IF Len(content) = 0 \/ content[1] \in punct THEN << << >> >> ELSE << >>)
        \o runs
        \o (IF Len(content) > 0 /\ content[Len(content)] \in punct THEN << << >> >> ELSE << >>)

\* the loop of _create_enhanced_preview over the first sentences, from the
\* k-th on: preview_parts
RECURSIVE preview_parts(_, _, _)
preview_parts(sentences, k, parts) ==
    LET With(sentence) ==
            IF Len(sentence) > 10
            THEN IF Len(join(SP, Append(parts, sentence))) > 150
                 THEN Append(parts, sentence)
                 ELSE preview_parts(sentences, k + 1, Append(parts, sentence))
            ELSE preview_parts(sentences, k + 1, parts)
    IN  IF k > Len(sentences) \/ k > 3 THEN parts
        ELSE With(strip(sentences[k]))

\* _create_enhanced_preview(content)
_create_enhanced_preview(content) ==
    LET dots == <<".", ".", ".">>
        Shortened(preview) ==
            IF Len(preview) > 200 THEN Slice(preview, 0, 200) \o dots
            ELSE IF Len(preview) > 0 THEN preview
            ELSE Slice(content, 0, 200) \o dots
    IN  Shortened(join(<<".", " ">>, preview_parts(split_sentences(content), 1, << >>)))

\* the dataclass ExtractedSection
ExtractedSection(document, page_number, section_title, content, content_preview, relevance_score, word_count, char_count, section_type, key_concepts) ==
    [document |-> document,
     page_number |-> page_number,
     section_title |-> section_title,
     content |-> content,
     content_preview |-> content_preview,
     relevance_score |-> relevance_score,
     word_count |-> word_count,
     char_count |-> char_count,
     section_type |-> section_type,
     key_concepts |-> key_concepts]

\* _create_section_from_text_enhanced: the ExtractedSection of the limited
\* content, once the descriptive title is known
titled_section(limited, descriptive_title, filename, page_number, ctx) ==
    ExtractedSection(
        filename,
        page_number,
        descriptive_title,
        limited,
        _create_enhanced_preview(limited),
        _calculate_relevance_score_enhanced(limited, descriptive_title, ctx),
        Len(split(limited)),
        Len(limited),
        _classify_section_type_enhanced(descriptive_title, limited),
        extract_keywords(limited, 10))

\* _create_section_from_text_enhanced: the content limited to
\* max_section_length characters
limit_content(content) ==
    IF Len(content) > max_section_length
    THEN Slice(content, 0, max_section_length) \o <<".", ".", ".">>
    ELSE content

\* _create_section_from_text_enhanced without the check of the length
create_section_of_any_length(content, filename, page_number, title, ctx) ==
    << titled_section(limit_content(content),
                      _generate_descriptive_title_enhanced(title, limit_content(content)),
                      filename, page_number, ctx) >>

\* _create_section_from_text_enhanced; an Optional[ExtractedSection] is a
\* list of no or one section
_create_section_from_text_enhanced(content, filename, page_number, title, ctx) ==
    IF Len(content) < min_section_length THEN << >>
    ELSE << titled_section(limit_content(content),
                           _generate_descriptive_title_enhanced(title, limit_content(content)),
                           filename, page_number, ctx) >>

-----------------------------------------------------------------------------
(* content_extractor.py: the sections of a page and of a document           *)

\* str(n) for n >= 0
RECURSIVE str_int(_)
str_int(n) ==
    LET digit == <<"0","1","2","3","4","5","6","7","8","9">>[(n % 10) + 1]
    IN  IF n < 10 THEN <<digit>> ELSE str_int(n \div 10) \o <<digit>>

\* _could_be_paragraph_title(line)
_could_be_paragraph_title(line) ==
    IF Len(line) < 3 THEN FALSE
    ELSE /\ Len(line) <= 60
         /\ Len(split(line)) <= 8
         /\ IsUpper(line[1])
         /\ ~endswith(line, <<".">>)
         /\ \A i \in (Len(line) - 2)..Len(line) : line[i] # ":"

\* _extract_paragraph_sections: the body of the loop, for the i-th paragraph
\* (1-based), stripped
paragraph_section(i, paragraph, filename, page_number, ctx) ==
    LET lines == split_on(paragraph, "\n")
        first_line == strip(lines[1])
        titled == _could_be_paragraph_title(first_line)
        title == IF titled THEN first_line
                 ELSE <<"C","o","n","t","e","n","t"," ","B","l","o","c","k"," ">> \o str_int(i)
        content == IF titled /\ Len(lines) > 1 THEN join(NL, Tail(lines)) ELSE paragraph
        Kept(section) ==
            IF section # << >> /\ section[1].relevance_score > Scale \div 10 THEN section
            ELSE << >>
    IN  IF Len(paragraph) < min_section_length THEN << >>
        ELSE IF Len(content) < min_section_length THEN << >>
        ELSE Kept(_create_section_from_text_enhanced(content, filename, page_number, title, ctx))

\* _extract_paragraph_sections(page_text, filename, page_number, ctx)
_extract_paragraph_sections(page_text, filename, page_number, ctx) ==
    LET paragraphs == split_paragraphs(page_text)
    IN  Concat(ListOf([i \in 1..Len(paragraphs) |->
                          paragraph_section(i, strip(paragraphs[i]), filename, page_number, ctx)],
                      Len(paragraphs)))

\* _extract_section_content: next_heading_patterns
next_heading_patterns == <<
    \* \n\s*[A-Z][A-Z\s]{2,50}\n
    <<Item("\n", 1, 1), Item("space", 0, -1), Item("upper", 1, 1), Item("upper_space", 2, 50),
      Item("\n", 1, 1)>>,
    \* \n\s*\d+\.?\s+[A-Z][^.!?\n]{5,80}\n
    <<Item("\n", 1, 1), Item("space", 0, -1), Item("digit", 1, -1), Item(".", 0, 1),
      Item("space", 1, -1), Item("upper", 1, 1), Item("heading_text", 5, 80), Item("\n", 1, 1)>>,
    \* \n\s*[A-Z][a-z\s]{3,50}\n
    <<Item("\n", 1, 1), Item("space", 0, -1), Item("upper", 1, 1), Item("lower_space", 3, 50),
      Item("\n", 1, 1)>>,
    \* \n\s*[A-Z][a-z\s]+:
    <<Item("\n", 1, 1), Item("space", 0, -1), Item("upper", 1, 1), Item("lower_space", 1, -1),
      Item(":", 1, 1)>>,
    \* \n\s*#+\s+[A-Z]
    <<Item("\n", 1, 1), Item("space", 0, -1), Item("#", 1, -1), Item("space", 1, -1),
      Item("upper", 1, 1)>>,
    \* \n\s*[<U+2022>\-\*]\s*[A-Z][A-Za-z\s]{10,60}\n
    <<Item("\n", 1, 1), Item("space", 0, -1), Item("bullet", 1, 1), Item("space", 0, -1),
      Item("upper", 1, 1), Item("letter_space", 10, 60), Item("\n", 1, 1)>>,
    \* \n\s*[IVX]+\.\s+[A-Z]
    <<Item("\n", 1, 1), Item("space", 0, -1), Item("roman", 1, -1), Item(".", 1, 1),
      Item("space", 1, -1), Item("upper", 1, 1)>> >>

\* match.end() of re.search(re.escape(pat), text, re.IGNORECASE), or -1
search_end_ignorecase(text, pat) ==
    LET EndOf(at) == IF at < 0 THEN -1 ELSE at + Len(pat)
    IN  EndOf(find(lower(text), lower(pat)))

\* _extract_section_content: the content it finds under the title, before
\* it limits the length
found_section_content(title, page_text) ==
    LET PartialEnd(title_words, i) ==
            search_end_ignorecase(page_text, title_words[i] \o SP \o title_words[i + 1])
        WithContext(content, title_start) ==
            IF Len(content) < 30 /\ title_start > 100
            THEN Slice(page_text, IF title_start - 200 > 0 THEN title_start - 200 ELSE 0,
                       title_start)
                 \o SP \o title \o SP \o content
            ELSE content
        Until(remaining_text, end_pos) ==
            WithContext(strip(Slice(remaining_text, 0, end_pos)), find(page_text, title))
        Remaining(remaining_text) ==
            Until(remaining_text,
                  MinOf(({search_start(remaining_text, next_heading_patterns[k]) :
                             k \in 1..Len(next_heading_patterns)} \ {-1})
                        \cup {Len(remaining_text)}))
        From(start_pos) ==
            IF start_pos < 0 THEN << >>
            ELSE Remaining(Slice(page_text, start_pos, Len(page_text)))
        FirstPartial(title_words, partial) ==
            IF partial # {} THEN PartialEnd(title_words, MinOf(partial)) ELSE -1
        Partial(title_words) ==
            FirstPartial(title_words,
                         {i \in 1..(Len(title_words) - 1) : PartialEnd(title_words, i) >= 0})
        StartPos(whole) == IF whole >= 0 THEN whole ELSE Partial(split(lower(title)))
    IN  From(StartPos(search_end_ignorecase(page_text, title)))

\* _extract_section_content: the limit of the length
limit_section_content(content) ==
    IF Len(content) > max_section_length THEN Slice(content, 0, max_section_length)
    ELSE content

\* _extract_section_content(title, page_text)
_extract_section_content(title, page_text) ==
    limit_section_content(found_section_content(title, page_text))

\* _create_section_from_info_enhanced(section_info, page_text, ...); a
\* section_info without 'content_preview' has the empty preview
_create_section_from_info_enhanced(section_info, page_text, filename, page_number, ctx) ==
    LET WithPreview(found) ==
            IF Len(found) < 50 /\ section_info.content_preview # << >>
            THEN strip(found \o SP \o section_info.content_preview)
            ELSE found
        content == WithPreview(_extract_section_content(section_info.title, page_text))
    IN  IF Len(content) < min_section_length THEN << >>
        ELSE _create_section_from_text_enhanced(content, filename, page_number,
                                                section_info.title, ctx)

\* _extract_page_sections(page_data, filename, persona_context)
_extract_page_sections(page_data, filename, ctx) ==
    LET page_number == page_data.page_number
        page_text == page_data.text
        WithParagraphs(from_headings, paragraph_sections) ==
            IF Len(from_headings) < 2 THEN from_headings \o paragraph_sections
            ELSE from_headings
        OrWholePage(with_paragraphs, page_section) ==
            IF with_paragraphs = << >> THEN page_section ELSE with_paragraphs
    IN  OrWholePage(
            WithParagraphs(
                Concat(ListOf([k \in 1..Len(page_data.sections) |->
                                  _create_section_from_info_enhanced(
                                      page_data.sections[k], page_text,
                                      filename, page_number, ctx)],
                              Len(page_data.sections))),
                _extract_paragraph_sections(page_text, filename, page_number, ctx)),
            _create_section_from_text_enhanced(page_text, filename, page_number,
                                               <<"P","a","g","e"," ","C","o","n","t","e","n","t">>, ctx))

\* extract_sections: the filter by minimum relevance
filter_min_relevance(extracted) ==
    SelectSeq(extracted, LAMBDA section : section.relevance_score >= min_relevance_threshold)

\* extract_sections(document, persona_context)
extract_sections(document, ctx) ==
    filter_min_relevance(
        Concat(ListOf([k \in 1..Len(document.pages) |->
                          _extract_page_sections(document.pages[k], document.filename, ctx)],
                      Len(document.pages))))

\* _create_section_from_info_enhanced: the title and the content it hands to
\* _create_section_from_text_enhanced, or on which it returns None, and the
\* content found under the heading before the limit of its length
heading_candidate(section_info, page_text) ==
    LET WithPreview(found) ==
            IF Len(found) < 50 /\ section_info.content_preview # << >>
            THEN strip(found \o SP \o section_info.content_preview)
            ELSE found
        Candidate(found) ==
            [tier |-> "heading", title |-> section_info.title, found |-> found,
             content |-> WithPreview(limit_section_content(found))]
    IN  Candidate(found_section_content(section_info.title, page_text))

\* _extract_paragraph_sections: the title and the content of the i-th
\* paragraph (1-based), stripped; none for a paragraph the loop skips
paragraph_candidate(i, paragraph) ==
    LET lines == split_on(paragraph, "\n")
        first_line == strip(lines[1])
        titled == _could_be_paragraph_title(first_line)
        title == IF titled THEN first_line
                 ELSE <<"C","o","n","t","e","n","t"," ","B","l","o","c","k"," ">> \o str_int(i)
        content == IF titled /\ Len(lines) > 1 THEN join(NL, Tail(lines)) ELSE paragraph
    IN  IF Len(paragraph) < min_section_length THEN << >>
        ELSE << [tier |-> "paragraph", title |-> title, found |-> content, content |-> content] >>

\* the titles and contents the three tiers of _extract_page_sections work
\* on, in the order of the tiers
page_candidates(page_data) ==
    LET Paragraphs(paragraphs) ==
            Concat(ListOf([i \in 1..Len(paragraphs) |->
                              paragraph_candidate(i, strip(paragraphs[i]))],
                          Len(paragraphs)))
    IN  ListOf([k \in 1..Len(page_data.sections) |->
                   heading_candidate(page_data.sections[k], page_data.text)],
               Len(page_data.sections))
        \o Paragraphs(split_paragraphs(page_data.text))
        \o << [tier |-> "page", title |-> <<"P","a","g","e"," ","C","o","n","t","e","n","t">>,
               found |-> page_data.text, content |-> page_data.text] >>

\* page_tiers_of with a paragraph tier that runs whatever the heading tier
\* produced
page_tiers_all_run(page_data, filename, ctx) ==
    LET Course(made) ==
            LET Of(tier) == SelectSeq(made, LAMBDA c : c.tier = tier)
                Sections(cs) == Concat(ListOf([k \in 1..Len(cs) |-> cs[k].made], Len(cs)))
                heading == Sections(Of("heading"))
                paragraph_ran == TRUE
                paragraph ==
                    IF paragraph_ran
                    THEN SelectSeq(Sections(Of("paragraph")),
                                   LAMBDA section : section.relevance_score > Scale \div 10)
                    ELSE << >>
                page_ran == heading \o paragraph = << >>
                page == IF page_ran THEN Sections(Of("page")) ELSE << >>
            IN  [page_number |-> page_data.page_number,
                 candidates |-> SelectSeq(made, LAMBDA c : \/ c.tier = "heading"
                                                          \/ (c.tier = "paragraph" /\ paragraph_ran)
                                                          \/ (c.tier = "page" /\ page_ran)),
                 heading |-> heading,
                 paragraph_ran |-> paragraph_ran,
                 paragraph |-> paragraph,
                 page_ran |-> page_ran,
                 page |-> page,
                 sections |-> heading \o paragraph \o page]
        Made(cs) ==
            Course(ListOf([k \in 1..Len(cs) |->
                              [tier |-> cs[k].tier, title |-> cs[k].title, found |-> cs[k].found,
                               content |-> cs[k].content,
                               made |-> _create_section_from_text_enhanced(
                                            cs[k].content, filename, page_data.page_number,
                                            cs[k].title, ctx)]],
                          Len(cs)))
    IN  Made(page_candidates(page_data))

\* _extract_page_sections with a record of its course: the candidates of the
\* tiers that ran, each with what _create_section_from_text_enhanced made of
\* it, the sections each tier added, and the list returned
page_tiers_of(page_data, filename, ctx) ==
    LET Course(made) ==
            LET Of(tier) == SelectSeq(made, LAMBDA c : c.tier = tier)
                Sections(cs) == Concat(ListOf([k \in 1..Len(cs) |-> cs[k].made], Len(cs)))
                heading == Sections(Of("heading"))
                paragraph_ran == Len(heading) < 2
                paragraph ==
                    IF paragraph_ran
                    THEN SelectSeq(Sections(Of("paragraph")),
                                   LAMBDA section : section.relevance_score > Scale \div 10)
                    ELSE << >>
                page_ran == heading \o paragraph = << >>
                page == IF page_ran THEN Sections(Of("page")) ELSE << >>
            IN  [page_number |-> page_data.page_number,
                 candidates |-> SelectSeq(made, LAMBDA c : \/ c.tier = "heading"
                                                          \/ (c.tier = "paragraph" /\ paragraph_ran)
                                                          \/ (c.tier = "page" /\ page_ran)),
                 heading |-> heading,
                 paragraph_ran |-> paragraph_ran,
                 paragraph |-> paragraph,
                 page_ran |-> page_ran,
                 page |-> page,
                 sections |-> heading \o paragraph \o page]
        Made(cs) ==
            Course(ListOf([k \in 1..Len(cs) |->
                              [tier |-> cs[k].tier, title |-> cs[k].title, found |-> cs[k].found,
                               content |-> cs[k].content,
                               made |-> _create_section_from_text_enhanced(
                                            cs[k].content, filename, page_data.page_number,
                                            cs[k].title, ctx)]],
                          Len(cs)))
    IN  Made(page_candidates(page_data))

-----------------------------------------------------------------------------
(* Inputs of the ranking engine                                             *)

\* bound: the longest batch of sections handed to rank_sections
MaxBatch == 4
\* bound: the largest max_sections handed to filter_top_sections
MaxCount == 4

\* the value of a score given in hundredths, as a final score
Hundredths(n) == n * Scale

\* the PersonaContext of persona "Analyst", job "Analyze cost data"
AnalystContext ==
    [role |-> <<"A","n","a","l","y","s","t">>,
     domain |-> <<"a","n","a","l","y","s","t">>,
     expertise_areas |-> << >>,
     job_keywords |-> << <<"a","n","a","l","y","z","e">>, <<"c","o","s","t">>, <<"d","a","t","a">> >>,
     job_intent |-> "analysis",
     priority_topics |-> << <<"a","n","a","l","y","s","t">>, <<"a","n","a","l","y","z","e">>, <<"c","o","s","t">>, <<"d","a","t","a">> >>,
     relevant_sections |-> << "analysis", "results", "data", "findings", "discussion",
                              "evaluation", "overview", "summary", "key points",
                              "important", "main", "primary" >>,
     analysis_depth |-> "focused"]

DocNames == << <<"a",".","p","d","f">>, <<"b",".","p","d","f">>, <<"c",".","p","d","f">>, <<"d",".","p","d","f">>, <<"e",".","p","d","f">> >>

TitleCostData == <<"C","o","s","t"," ","D","a","t","a">>
TitleNotes == <<"N","o","t","e","s">>
\* 100 characters, 20 words, the tokens cost and data
BodyCostData == Repeat(<<"c","o","s","t"," ","d","a","t","a"," ">>, 10)
\* 112 characters, 32 words, no alphabetic token
BodyNumbers == Repeat(<<"1","2"," ","3","4","5"," ">>, 16)

\* the section the extractor builds for the given document from an early
\* page that matches the job (relevance 0.8), or from a late page that does
\* not (relevance 0.1)
PoolSection(doc, matching) ==
    IF matching
    THEN _create_section_from_text_enhanced(BodyCostData, doc, 1, TitleCostData, AnalystContext)[1]
    ELSE _create_section_from_text_enhanced(BodyNumbers, doc, 9, TitleNotes, AnalystContext)[1]

RankPool == {PoolSection(DocNames[d], m) : d \in 1..3, m \in BOOLEAN}

SeqsUpTo(S, n) == UNION {[1..k -> S] : k \in 0..n}

\* the scenario of ten candidates from five documents, two each: the
\* documents interleaved or grouped, each document's pair alike or mixed
ScenarioBatches ==
    {[i \in 1..10 |-> PoolSection(DocNames[IF grouped THEN (i + 1) \div 2 ELSE ((i - 1) % 5) + 1],
                                  IF mixed THEN i % 2 = 0 ELSE i <= firstHalf)]
        : grouped \in BOOLEAN, mixed \in BOOLEAN, firstHalf \in {0, 5, 10}}

\* the thresholds handed to filter_top_sections: main.py's 0.2, the default
\* 0.3, and one above every score of the inputs
MinScores == {Hundredths(20), Hundredths(30), Hundredths(500)}

-----------------------------------------------------------------------------
(* Tables of the text-reading functions on the texts of the inputs.  Each   *)
(* table is the graph of the function it names, computed once; a call on    *)
(* another argument computes the function.                                  *)

KnownContexts == {AnalystContext}
KnownSections == RankPool \cup UNION {Range(b) : b \in ScenarioBatches}
KnownTexts == {s.content : s \in KnownSections}

\* f itself; comparing it makes TLC tabulate it
Tabulated(f) == IF f = << >> THEN f ELSE f

SimilarityTable == Tabulated(
    [pair \in KnownTexts \X KnownTexts |-> calculate_text_similarity(pair[1], pair[2])])
CoverageTable == Tabulated(
    [pair \in KnownSections \X KnownContexts |-> _calculate_coverage_score(pair[1], pair[2])])
PriorityBoostTable == Tabulated(
    [pair \in KnownSections \X KnownContexts |-> _calculate_priority_boost(pair[1], pair[2])])

text_similarity(text1, text2) ==
    LET Lookup(table) ==
            IF <<text1, text2>> \in DOMAIN table THEN table[<<text1, text2>>]
            ELSE calculate_text_similarity(text1, text2)
    IN  Lookup(SimilarityTable)
coverage_score_of(section, ctx) ==
    LET Lookup(table) ==
            IF <<section, ctx>> \in DOMAIN table THEN table[<<section, ctx>>]
            ELSE _calculate_coverage_score(section, ctx)
    IN  Lookup(CoverageTable)
priority_boost_of(section, ctx) ==
    LET Lookup(table) ==
            IF <<section, ctx>> \in DOMAIN table THEN table[<<section, ctx>>]
            ELSE _calculate_priority_boost(section, ctx)
    IN  Lookup(PriorityBoostTable)

-----------------------------------------------------------------------------
(* ranking_engine.py: ranking and selection                                 *)

\* _calculate_diversity_bonus.  `other_section != section` compares two
\* dataclass instances field by field.
_calculate_diversity_bonus(section, all_sections) ==
    LET Bonus(similarities) ==
            IF similarities = << >> THEN Scale
            ELSE Max(0, Min(Scale, Scale - Exact(SumSeq(similarities), Len(similarities))))
        Others(others) ==
            ListOf([i \in 1..Len(others) |-> others[i].content], Len(others))
        Similarities(texts) ==
            ListOf([i \in 1..Len(texts) |-> text_similarity(section.content, texts[i])], Len(texts))
    IN  IF Len(all_sections) <= 1 THEN Scale
        ELSE Bonus(Similarities(Others(SelectSeq(all_sections, LAMBDA o : o # section))))

\* _calculate_intent_bonus
_calculate_intent_bonus(section, ctx) ==
    IF ctx.job_intent \in DOMAIN intent_section_preference
    THEN LET preferred_sections == intent_section_preference[ctx.job_intent]
         IN  IF section.section_type \in Range(preferred_sections)
             THEN LET index == IndexOf(preferred_sections, section.section_type) - 1
                  IN  Exact(3 * Scale * (Len(preferred_sections) - index),
                            10 * Len(preferred_sections))
             ELSE 0
    ELSE 0

\* _calculate_length_score
_calculate_length_score(section) ==
    LET word_count == section.word_count
    IN  IF 50 <= word_count /\ word_count <= 300 THEN Scale
        ELSE IF word_count < 50 THEN Exact(Scale * word_count, 50)
        ELSE Scale - Min(Scale \div 2, Exact(Scale * (word_count - 300), 1000))

\* the section's type score: self.section_importance.get(type, 0.5) plus the
\* intent bonus
section_type_score(section, ctx) ==
    (IF section.section_type \in DOMAIN section_importance
     THEN section_importance[section.section_type] * (Scale \div 100)
     ELSE Scale \div 2)
    + _calculate_intent_bonus(section, ctx)

\* _calculate_section_ranking that multiplies the priority boost by
\* self.weights['priority_boost'] like the other factors
ranking_with_weighted_boost(section, ctx, all_sections) ==
    LET Ranked(relevance_score, diversity_bonus, coverage_score, intent_bonus, type_score, length_score, priority_boost) ==
            [document |-> section.document,
             page_number |-> section.page_number,
             section_title |-> section.section_title,
             content |-> section.content,
             content_preview |-> section.content_preview,
             importance_rank |-> 0,
             relevance_score |-> relevance_score,
             diversity_bonus |-> diversity_bonus,
             coverage_score |-> coverage_score,
             final_score |-> relevance_score * weights.relevance
                             + diversity_bonus * weights.diversity
                             + coverage_score * weights.coverage
                             + type_score * weights.section_type
                             + length_score * weights.length
                             + priority_boost * weights.priority_boost,
             word_count |-> section.word_count,
             char_count |-> section.char_count,
             section_type |-> section.section_type,
             key_concepts |-> section.key_concepts,
             ranking_factors |-> [relevance |-> relevance_score,
                                  diversity |-> diversity_bonus,
                                  coverage |-> coverage_score,
                                  section_type |-> type_score,
                                  length |-> length_score,
                                  intent_bonus |-> intent_bonus,
                                  priority_boost |-> priority_boost]]
    IN  Ranked(section.relevance_score,
               _calculate_diversity_bonus(section, all_sections),
               coverage_score_of(section, ctx),
               _calculate_intent_bonus(section, ctx),
               section_type_score(section, ctx),
               _calculate_length_score(section),
               priority_boost_of(section, ctx))

\* _calculate_section_ranking: the RankedSection of one section.  final_score
\* is the score times 100 * Scale.
_calculate_section_ranking(section, ctx, all_sections) ==
    LET Ranked(relevance_score, diversity_bonus, coverage_score, intent_bonus, type_score, length_score, priority_boost) ==
            [document |-> section.document,
             page_number |-> section.page_number,
             section_title |-> section.section_title,
             content |-> section.content,
             content_preview |-> section.content_preview,
             importance_rank |-> 0,
             relevance_score |-> relevance_score,
             diversity_bonus |-> diversity_bonus,
             coverage_score |-> coverage_score,
             final_score |-> relevance_score * weights.relevance
                             + diversity_bonus * weights.diversity
                             + coverage_score * weights.coverage
                             + type_score * weights.section_type
                             + length_score * weights.length
                             + priority_boost * 100,
             word_count |-> section.word_count,
             char_count |-> section.char_count,
             section_type |-> section.section_type,
             key_concepts |-> section.key_concepts,
             ranking_factors |-> [relevance |-> relevance_score,
                                  diversity |-> diversity_bonus,
                                  coverage |-> coverage_score,
                                  section_type |-> type_score,
                                  length |-> length_score,
                                  intent_bonus |-> intent_bonus,
                                  priority_boost |-> priority_boost]]
    IN  Ranked(section.relevance_score,
               _calculate_diversity_bonus(section, all_sections),
               coverage_score_of(section, ctx),
               _calculate_intent_bonus(section, ctx),
               section_type_score(section, ctx),
               _calculate_length_score(section),
               priority_boost_of(section, ctx))

\* list.sort(key=lambda x: x.final_score, reverse=True): a stable sort, so
\* elements of equal key keep their order.  Insert x after every element whose
\* score is at least its own.
\* a sort that forgets reverse=True: ascending
RECURSIVE InsertAscending(_, _)
InsertAscending(sorted, x) ==
    IF sorted = << >> THEN <<x>>
    ELSE IF Head(sorted).final_score <= x.final_score
         THEN <<Head(sorted)>> \o InsertAscending(Tail(sorted), x)
         ELSE <<x>> \o sorted

\* a descending sort that is not stable: x goes before the elements equal to it
RECURSIVE InsertBeforeEqual(_, _)
InsertBeforeEqual(sorted, x) ==
    IF sorted = << >> THEN <<x>>
    ELSE IF Head(sorted).final_score > x.final_score
         THEN <<Head(sorted)>> \o InsertBeforeEqual(Tail(sorted), x)
         ELSE <<x>> \o sorted

RECURSIVE InsertByScore(_, _)
InsertByScore(sorted, x) ==
    IF sorted = << >> THEN <<x>>
    ELSE IF Head(sorted).final_score >= x.final_score
         THEN <<Head(sorted)>> \o InsertByScore(Tail(sorted), x)
         ELSE <<x>> \o sorted

RECURSIVE SortFrom(_, _, _)
SortFrom(list, i, acc) ==
    IF i > Len(list) THEN acc ELSE SortFrom(list, i + 1, InsertByScore(acc, list[i]))

sort_by_final_score(list) == SortFrom(list, 1, << >>)

\* rank_sections that ranks each distinct section once: equal sections of
\* the batch give one RankedSection
rank_distinct_sections(secs, ctx) ==
    LET Numbered(ordered) ==
            [i \in DOMAIN ordered |-> [ordered[i] EXCEPT !.importance_rank = i]]
        Distinct(list) ==
            SelectSeq([i \in DOMAIN list |-> IF \E j \in 1..(i - 1) : list[j] = list[i]
                                             THEN << >> ELSE <<list[i]>>],
                      LAMBDA x : x # << >>)
    IN  IF secs = << >> THEN << >>
        ELSE Numbered(sort_by_final_score(
                 [i \in DOMAIN Distinct(secs) |->
                     _calculate_section_ranking(Distinct(secs)[i][1], ctx, secs)]))

\* rank_sections
rank_sections(secs, ctx) ==
    LET Numbered(ordered) ==
            [i \in DOMAIN ordered |-> [ordered[i] EXCEPT !.importance_rank = i]]
    IN  IF secs = << >> THEN << >>
        ELSE Numbered(sort_by_final_score(
                 [i \in DOMAIN secs |-> _calculate_section_ranking(secs[i], ctx, secs)]))

\* the documents of a list of sections, in order of first appearance: the key
\* order of the dict by_document
document_order(secs) ==
    LET first == SelectSeq([i \in DOMAIN secs |-> i],
                           LAMBDA i : \A j \in 1..(i - 1) : secs[j].document # secs[i].document)
    IN  [k \in DOMAIN first |-> secs[first[k]].document]

\* the sections of one document, in list order: by_document[doc]
sections_of(secs, doc) == SelectSeq(secs, LAMBDA s : s.document = doc)

\* _ensure_document_diversity with `i <= remainder`: one document too many
\* gets an extra section
diversity_extra_off_by_one(secs, max) ==
    IF Len(secs) <= max THEN secs
    ELSE LET docs == document_order(secs)
             num_documents == Len(docs)
             base_per_doc == max \div num_documents
             remainder == max % num_documents
             taken == [k \in DOMAIN docs |->
                         LET doc_sections == sections_of(secs, docs[k])
                             sections_for_doc == base_per_doc + (IF k - 1 <= remainder THEN 1 ELSE 0)
                         IN  SubSeq(doc_sections, 1, Min(sections_for_doc, Len(doc_sections)))]
         IN  sort_by_final_score(Concat(taken))

\* _ensure_document_diversity that gives the extra sections to the last
\* `remainder` documents instead of the first
diversity_extra_to_last(secs, max) ==
    IF Len(secs) <= max THEN secs
    ELSE LET docs == document_order(secs)
             num_documents == Len(docs)
             base_per_doc == max \div num_documents
             remainder == max % num_documents
             taken == [k \in DOMAIN docs |->
                         LET doc_sections == sections_of(secs, docs[k])
                             sections_for_doc == base_per_doc
                                 + (IF k > num_documents - remainder THEN 1 ELSE 0)
                         IN  SubSeq(doc_sections, 1, Min(sections_for_doc, Len(doc_sections)))]
         IN  sort_by_final_score(Concat(taken))

\* _ensure_document_diversity that takes the last sections of each document,
\* doc_sections[-sections_for_doc:], instead of the first
diversity_takes_last(secs, max) ==
    IF Len(secs) <= max THEN secs
    ELSE LET docs == document_order(secs)
             num_documents == Len(docs)
             base_per_doc == max \div num_documents
             remainder == max % num_documents
             taken == [k \in DOMAIN docs |->
                         LET doc_sections == sections_of(secs, docs[k])
                             sections_for_doc == base_per_doc + (IF k - 1 < remainder THEN 1 ELSE 0)
                         IN  SubSeq(doc_sections,
                                    Len(doc_sections) - Min(sections_for_doc, Len(doc_sections)) + 1,
                                    Len(doc_sections))]
         IN  sort_by_final_score(Concat(taken))

\* _ensure_document_diversity
_ensure_document_diversity(secs, max) ==
    IF Len(secs) <= max THEN secs
    ELSE LET docs == document_order(secs)
             num_documents == Len(docs)
             base_per_doc == max \div num_documents
             remainder == max % num_documents
             taken == [k \in DOMAIN docs |->
                         LET doc_sections == sections_of(secs, docs[k])
                             sections_for_doc == base_per_doc + (IF k - 1 < remainder THEN 1 ELSE 0)
                         IN  SubSeq(doc_sections, 1, Min(sections_for_doc, Len(doc_sections)))]
         IN  sort_by_final_score(Concat(taken))

\* a filter that keeps the best section when no section reaches the threshold
filter_keeps_best(ranked, threshold) ==
    IF \A i \in DOMAIN ranked : ranked[i].final_score < threshold
    THEN SubSeq(ranked, 1, Min(1, Len(ranked)))
    ELSE SelectSeq(ranked, LAMBDA s : s.final_score >= threshold)

\* filter_top_sections: the list comprehension that drops low scores
filter_min_score(ranked, threshold) ==
    SelectSeq(ranked, LAMBDA s : s.final_score >= threshold)

\* filter_top_sections that only drops the low scores
filter_without_limit(ranked, max, threshold) == filter_min_score(ranked, threshold)

\* filter_top_sections
filter_top_sections(ranked, max, threshold) ==
    LET diverse == _ensure_document_diversity(filter_min_score(ranked, threshold), max)
    IN  SubSeq(diverse, 1, Min(max, Len(diverse)))

-----------------------------------------------------------------------------
(* Ranking and selection of one batch                                       *)

\* main is not running
NoMain ==
    /\ arguments = [persona |-> << >>, job |-> << >>, files |-> << >>]
    /\ loaded_documents = << >>
    /\ document_index = 0
    /\ core_sections = << >>
    /\ ranking_input = << >>
    /\ steps_done = {}
    /\ outcome = "running"
    /\ calls = << >>

\* no text utility is being called
NoUtils ==
    /\ first_text = << >>
    /\ second_text = << >>
    /\ similarity = -1
    /\ similarity_swapped = -1
    /\ keyword_limit = 0
    /\ found_keywords = << >>
    /\ found_again = << >>

\* no persona is being analysed
NoPersona ==
    /\ job_to_be_done = << >>
    /\ job_clean = << >>
    /\ job_intent = ""
    /\ context_runs = << >>

\* no document is being extracted
NoExtraction ==
    /\ current_document = [filename |-> << >>, pages |-> << >>]
    /\ page_index = 0
    /\ extracted_sections = << >>
    /\ filtered_sections = << >>
    /\ page_tiers = << >>

InitRank ==
    /\ NoMain
    /\ phase = "extracted"
    /\ persona_context = AnalystContext
    /\ sections \in SeqsUpTo(RankPool, MaxBatch) \cup ScenarioBatches
    /\ ranked_sections = << >>
    /\ max_sections = 0
    /\ min_score = 0
    /\ top_sections = << >>
    /\ NoExtraction
    /\ NoUtils
    /\ NoPersona

\* main.py: ranked_sections = ranking_engine.rank_sections(...)
RankSections ==
    /\ phase = "extracted"
    /\ ranked_sections' = rank_sections(sections, persona_context)
    /\ phase' = "ranked"
    /\ UNCHANGED <<persona_context, sections, max_sections, min_score, top_sections, extract_vars, utils_vars, persona_vars,
                   main_vars>>

\* main.py: top_sections = ranking_engine.filter_top_sections(...)
FilterTopSections ==
    /\ phase = "ranked"
    /\ \E max \in 0..(IF Len(sections) = 10 THEN 5 ELSE MaxCount), threshold \in MinScores :
          /\ max_sections' = max
          /\ min_score' = threshold
          /\ top_sections' = filter_top_sections(ranked_sections, max, threshold)
    /\ phase' = "selected"
    /\ UNCHANGED <<persona_context, sections, ranked_sections, extract_vars, utils_vars, persona_vars,
                   main_vars>>

NextRank == RankSections \/ FilterTopSections

Spec == InitRank /\ [][NextRank]_vars

-----------------------------------------------------------------------------
(* Claims about ranking and selection                                       *)

\* the sections of ranked_sections that pass min_score
Survivors == filter_min_score(ranked_sections, min_score)

\* the documents of a list of sections
DocumentsOf(list) == {list[i].document : i \in DOMAIN list}

\* how many sections of a list come from one document
CountOf(list, doc) == Cardinality({i \in DOMAIN list : list[i].document = doc})

\* the ExtractedSection a RankedSection wraps
AsSection(r) ==
    [document |-> r.document, page_number |-> r.page_number,
     section_title |-> r.section_title, content |-> r.content,
     content_preview |-> r.content_preview, relevance_score |-> r.relevance_score,
     word_count |-> r.word_count, char_count |-> r.char_count,
     section_type |-> r.section_type, key_concepts |-> r.key_concepts]

\* C1: after rank_sections and the min-score filter of filter_top_sections,
\* the N surviving sections carry the importance ranks 1..N, each once.
C1_SurvivorRanks ==
    phase = "selected" =>
        /\ {Survivors[i].importance_rank : i \in DOMAIN Survivors} = 1..Len(Survivors)
        /\ \A i, j \in DOMAIN Survivors :
              i # j => Survivors[i].importance_rank # Survivors[j].importance_rank

\* C1 witness: the filter dropped some sections of a ranked batch and kept others
C1_Witness ==
    /\ phase = "selected"
    /\ Len(Survivors) >= 2
    /\ Len(Survivors) < Len(ranked_sections)

\* C2: filter_top_sections returns at most max_sections sections, for every
\* max_sections >= 0 and every threshold.
C2_AtMostMaxCount == phase = "selected" => Len(top_sections) <= max_sections

\* C2 witness: more sections pass the threshold than max_sections allows, and
\* exactly max_sections of them are returned
C2_Witness ==
    /\ phase = "selected"
    /\ max_sections >= 1
    /\ Len(Survivors) > max_sections
    /\ Len(top_sections) = max_sections

\* ceil(max_sections / d)
CeilShare(d) == (max_sections + d - 1) \div d

\* no document contributes more than ceil(max_sections / num_documents)
\* sections to the result
WithinShare ==
    \A doc \in DocumentsOf(Survivors) :
        CountOf(top_sections, doc) <= CeilShare(Cardinality(DocumentsOf(Survivors)))

\* C3 as stated: every call with max_sections >= 1 keeps every document
\* within ceil(max_sections / num_documents).
C3_Original == (phase = "selected" /\ max_sections >= 1) => WithinShare

\* C3 amended: the bound holds for the calls in which more sections pass the
\* threshold than max_sections, the calls that select by document.
C3_ShareWhenOverfull ==
    (phase = "selected" /\ max_sections >= 1 /\ Len(Survivors) > max_sections) => WithinShare

\* C3 witness: document selection cut a document that had more surviving
\* sections than its share
C3_Witness ==
    /\ phase = "selected"
    /\ max_sections >= 2
    /\ Len(Survivors) > max_sections
    /\ Cardinality(DocumentsOf(Survivors)) >= 2
    /\ \E doc \in DocumentsOf(Survivors) :
          /\ CountOf(Survivors, doc) > CeilShare(Cardinality(DocumentsOf(Survivors)))
          /\ CountOf(top_sections, doc) = CeilShare(Cardinality(DocumentsOf(Survivors)))

\* the position at which a document first appears in the list handed to
\* filter_top_sections
FirstAppearance(doc) ==
    CHOOSE i \in DOMAIN ranked_sections :
        /\ ranked_sections[i].document = doc
        /\ \A j \in 1..(i - 1) : ranked_sections[j].document # doc

\* the 0-based index of a document among the documents with a surviving
\* section, in order of first appearance
DocumentIndex(doc) ==
    Cardinality({d \in DocumentsOf(Survivors) : FirstAppearance(d) < FirstAppearance(doc)})

\* C4: when more sections survive than max_sections, the i-th document
\* contributes exactly min(its surviving sections,
\* max_sections // D + (1 if i < max_sections % D else 0)) sections; ten
\* candidates from five documents, two each, with max_sections = 5 give one
\* section per document.
C4_PerDocumentAllocation ==
    (phase = "selected" /\ Len(Survivors) > max_sections) =>
        LET D == Cardinality(DocumentsOf(Survivors))
        IN  /\ \A doc \in DocumentsOf(Survivors) :
                  CountOf(top_sections, doc) =
                      Min(CountOf(Survivors, doc),
                          (max_sections \div D)
                          + (IF DocumentIndex(doc) < max_sections % D THEN 1 ELSE 0))
            /\ (/\ Len(Survivors) = 10
                /\ D = 5
                /\ \A doc \in DocumentsOf(Survivors) : CountOf(Survivors, doc) = 2
                /\ max_sections = 5)
               => \A doc \in DocumentsOf(Survivors) : CountOf(top_sections, doc) = 1

\* C4 witness: the scenario of ten surviving candidates, five documents, two
\* each, max_sections = 5
C4_Witness ==
    /\ phase = "selected"
    /\ Len(Survivors) = 10
    /\ Cardinality(DocumentsOf(Survivors)) = 5
    /\ \A doc \in DocumentsOf(Survivors) : CountOf(Survivors, doc) = 2
    /\ max_sections = 5
    /\ Len(top_sections) = 5

\* the final score rank_sections computes for the i-th section of the batch
ScoreOfInput(i) == _calculate_section_ranking(sections[i], persona_context, sections).final_score

\* C5: rank_sections orders by final score descending, sections of equal
\* final score keep their input order, and importance_rank follows the order.
C5_StableDescending ==
    phase = "ranked" =>
        /\ Len(ranked_sections) = Len(sections)
        /\ \A i \in DOMAIN ranked_sections : ranked_sections[i].importance_rank = i
        /\ \A i, j \in DOMAIN ranked_sections :
              i < j => ranked_sections[i].final_score >= ranked_sections[j].final_score
        /\ \A k \in DOMAIN sections :
              LET inOrder == SelectSeq([i \in DOMAIN sections |-> i],
                                       LAMBDA i : ScoreOfInput(i) = ScoreOfInput(k))
                  outOrder == SelectSeq(ranked_sections,
                                        LAMBDA r : r.final_score = ScoreOfInput(k))
              IN  [n \in DOMAIN outOrder |-> AsSection(outOrder[n])]
                  = [n \in DOMAIN inOrder |-> sections[inOrder[n]]]

\* C5 witness: two sections that differ tie on the final score, next to a
\* section with another score
C5_Witness ==
    /\ phase = "ranked"
    /\ \E i, j \in DOMAIN ranked_sections :
          /\ i < j
          /\ ranked_sections[i].final_score = ranked_sections[j].final_score
          /\ ranked_sections[i].document # ranked_sections[j].document
    /\ \E i, j \in DOMAIN ranked_sections :
          ranked_sections[i].final_score > ranked_sections[j].final_score

\* C6 as stated: in a batch of exactly two sections with identical bodies,
\* rank_sections gives both sections diversity_bonus 0.0.
C6_Original ==
    (/\ phase = "ranked"
     /\ Len(sections) = 2
     /\ sections[1].content = sections[2].content
     /\ \A i \in DOMAIN sections : sections[i].char_count >= 100)
    => \A i \in DOMAIN ranked_sections : ranked_sections[i].diversity_bonus = 0

-----------------------------------------------------------------------------
(* Inputs of the content extractor                                          *)

\* bound: the most pages of a document handed to extract_sections
MaxPages == 2

TitleRiskPlan == <<"R","i","s","k"," ","P","l","a","n">>
TitleBudget == <<"B","u","d","g","e","t">>

\* a section_info of a page: a heading the document processor found
SectionInfo(title, content_preview) == [title |-> title, content_preview |-> content_preview]

\* the text and the headings of the pages the documents are made of
PageContents == <<
    \* a heading and its body, one paragraph
    [text |-> TitleCostData \o NL \o Repeat(<<"c","o","s","t"," ","d","a","t","a"," ">>, 12),
     sections |-> <<SectionInfo(TitleCostData, << >>)>>],
    \* two headings with their bodies, two paragraphs
    [text |-> TitleCostData \o NL \o Repeat(<<"c","o","s","t"," ","d","a","t","a"," ">>, 12) \o NL \o NL
              \o TitleRiskPlan \o NL \o Repeat(<<"r","i","s","k"," ","p","l","a","n"," ","d","a","t","a"," ">>, 8),
     sections |-> <<SectionInfo(TitleCostData, << >>), SectionInfo(TitleRiskPlan, << >>)>>],
    \* a heading whose body matches the role, every job keyword and the
    \* quality indicators
    [text |-> TitleCostData \o NL \o Repeat(<<"a","n","a","l","y","s","t"," ","a","n","a","l","y","z","e"," ","c","o","s","t"," ","d","a","t","a"," ","m","e","t","h","o","d"," ","-"," ">>, 6),
     sections |-> <<SectionInfo(TitleCostData, << >>)>>],
    \* a heading that is not in the text, with a preview
    [text |-> BodyNumbers,
     sections |-> <<SectionInfo(TitleBudget, Repeat(<<"b","u","d","g","e","t"," ","d","a","t","a"," ">>, 9))>>],
    \* one line without headings, as the document processor's cleaning leaves
    \* a page
    [text |-> Repeat(<<"a","n","a","l","y","s","t"," ","c","o","s","t"," ","d","a","t","a"," ">>, 7), sections |-> << >>],
    \* 100 characters; 99 without the last space
    [text |-> BodyCostData, sections |-> << >>],
    \* 99 characters
    [text |-> SubSeq(BodyCostData, 1, 99), sections |-> << >>],
    \* no letters: only the length counts for the relevance
    [text |-> BodyNumbers, sections |-> << >>],
    \* nothing that matches the persona
    [text |-> Repeat(<<"z","z","z","z"," ">>, 20), sections |-> << >>],
    \* a short page
    [text |-> <<"c","o","s","t"," ","d","a","t","a"," ","n","o","w">>, sections |-> << >>],
    \* more than max_section_length characters
    [text |-> Repeat(<<"c","o","s","t"," ","d","a","t","a"," ">>, 201), sections |-> << >>],
    \* a heading with more than max_section_length characters under it
    [text |-> TitleCostData \o NL \o Repeat(<<"c","o","s","t"," ","d","a","t","a"," ">>, 201),
     sections |-> <<SectionInfo(TitleCostData, << >>)>>],
    \* more than max_section_length characters in paragraphs of fewer than
    \* min_section_length
    [text |-> Repeat(<<"c","o","s","t"," ","d","a","t","a"," ","p","l","a","n","\n","\n">>, 130),
     sections |-> << >>] >>

\* the page dictionary of the k-th page of a document
PageData(k, contents) ==
    [page_number |-> k, text |-> contents.text, sections |-> contents.sections]

\* the documents of up to n pages
DocumentsUpTo(n) ==
    UNION {{[filename |-> DocNames[1],
             pages |-> [k \in 1..len |-> PageData(k, PageContents[choice[k]])]]
               : choice \in [1..len -> DOMAIN PageContents]} : len \in 1..n}

KnownPages == {PageData(k, PageContents[c]) : k \in 1..MaxPages, c \in DOMAIN PageContents}

PageSectionsTable == Tabulated(
    [page \in KnownPages |-> _extract_page_sections(page, DocNames[1], AnalystContext)])

\* _extract_page_sections(page_data, filename, persona_context), by the table
\* where it has the arguments
page_sections_of(page_data, filename, ctx) ==
    IF page_data \in DOMAIN PageSectionsTable /\ filename = DocNames[1] /\ ctx = AnalystContext
    THEN PageSectionsTable[page_data]
    ELSE _extract_page_sections(page_data, filename, ctx)

PageTiersTable == Tabulated(
    [page \in KnownPages |-> page_tiers_of(page, DocNames[1], AnalystContext)])

\* page_tiers_of(page_data, filename, persona_context), by the table where it
\* has the arguments
page_course_of(page_data, filename, ctx) ==
    IF page_data \in DOMAIN PageTiersTable /\ filename = DocNames[1] /\ ctx = AnalystContext
    THEN PageTiersTable[page_data]
    ELSE page_tiers_of(page_data, filename, ctx)

-----------------------------------------------------------------------------
(* extract_sections on one document                                         *)

\* no batch is being ranked
NoRanking ==
    /\ sections = << >>
    /\ ranked_sections = << >>
    /\ max_sections = 0
    /\ min_score = 0
    /\ top_sections = << >>

InitExtract ==
    /\ NoMain
    /\ phase = "extracting"
    /\ persona_context = AnalystContext
    /\ current_document \in DocumentsUpTo(MaxPages)
    /\ page_index = 0
    /\ extracted_sections = << >>
    /\ filtered_sections = << >>
    /\ page_tiers = << >>
    /\ NoRanking
    /\ NoUtils
    /\ NoPersona

\* extract_sections: one turn of the loop over document['pages']
ExtractPageSections ==
    /\ phase = "extracting"
    /\ page_index < Len(current_document.pages)
    /\ extracted_sections' = extracted_sections \o
           page_sections_of(current_document.pages[page_index + 1], current_document.filename, persona_context)
    /\ page_tiers' = Append(page_tiers,
           page_course_of(current_document.pages[page_index + 1], current_document.filename, persona_context))
    /\ page_index' = page_index + 1
    /\ UNCHANGED <<phase, persona_context, current_document, filtered_sections, rank_vars, utils_vars, persona_vars,
                   main_vars>>

\* extract_sections: the filter by minimum relevance and the return
ReturnSections ==
    /\ phase = "extracting"
    /\ page_index = Len(current_document.pages)
    /\ filtered_sections' = filter_min_relevance(extracted_sections)
    /\ phase' = "extracted document"
    /\ UNCHANGED <<persona_context, current_document, page_index, extracted_sections, page_tiers, rank_vars, utils_vars, persona_vars,
                   main_vars>>

NextExtract == ExtractPageSections \/ ReturnSections

SpecExtract == InitExtract /\ [][NextExtract]_vars

-----------------------------------------------------------------------------
(* Claims about extraction                                                  *)

\* C7: every section that extract_sections returns has a body of at least
\* 100 characters and a relevance score between 0 and 1
C7_BodyAndRelevance ==
    \A i \in 1..Len(filtered_sections) :
        /\ Len(filtered_sections[i].content) >= 100
        /\ filtered_sections[i].char_count >= 100
        /\ filtered_sections[i].relevance_score >= 0
        /\ filtered_sections[i].relevance_score <= Scale

\* extract_sections has returned a section of exactly 100 characters and one
\* whose relevance is 1.0, and has left out a page of fewer than 100
C7_Witness ==
    /\ phase = "extracted document"
    /\ \E i \in 1..Len(filtered_sections) : Len(filtered_sections[i].content) = 100
    /\ \E i \in 1..Len(filtered_sections) : filtered_sections[i].relevance_score = Scale

-----------------------------------------------------------------------------
(* Claims about empty results                                               *)

\* C11: rank_sections of the empty list is the empty list, and
\* filter_top_sections gives the empty list whenever no ranked section has a
\* final_score of at least min_score, whatever max_count is
C11_EmptyResult ==
    /\ (phase \in {"ranked", "selected"} /\ sections = << >>) => ranked_sections = << >>
    /\ (/\ phase = "selected"
        /\ \A i \in DOMAIN ranked_sections : ranked_sections[i].final_score < min_score)
       => top_sections = << >>

\* some sections were ranked, none reaches min_score, and a positive
\* max_count was asked for
C11_Witness ==
    /\ phase = "selected"
    /\ ranked_sections # << >>
    /\ max_sections > 0
    /\ \A i \in DOMAIN ranked_sections : ranked_sections[i].final_score < min_score
    /\ top_sections = << >>

-----------------------------------------------------------------------------
(* utils.py: calls of calculate_text_similarity and extract_keywords        *)

\* the greatest number of tokens of an input text
MaxWords == 3
\* the greatest max_keywords handed to extract_keywords
MaxKeywords == 2

\* the tokens of the input texts: two words, one of them capitalised as
\* well, a stop word of four letters, a word of three letters, a number
Tokens == {<<"c","o","s","t">>, <<"d","a","t","a">>, <<"C","o","s","t">>,
           <<"w","i","t","h">>, <<"t","a","x">>, <<"1","2">>}

\* the texts of at most n tokens, space-joined; the empty text is one
TextsUpTo(n) == {join(SP, ws) : ws \in SeqsUpTo(Tokens, n)}

InitUtils ==
    /\ NoMain
    /\ phase = "texts"
    /\ persona_context = AnalystContext
    /\ first_text \in TextsUpTo(MaxWords)
    /\ second_text \in TextsUpTo(1) \cup {first_text}
    /\ similarity = -1
    /\ similarity_swapped = -1
    /\ keyword_limit = 0
    /\ found_keywords = << >>
    /\ found_again = << >>
    /\ NoRanking
    /\ NoExtraction
    /\ NoPersona

\* calculate_text_similarity, called on the two texts in both orders
CalculateTextSimilarity ==
    /\ phase = "texts"
    /\ similarity = -1
    /\ similarity' = calculate_text_similarity(first_text, second_text)
    /\ similarity_swapped' = calculate_text_similarity(second_text, first_text)
    /\ UNCHANGED <<phase, persona_context, first_text, second_text, keyword_limit,
                   found_keywords, found_again, rank_vars, extract_vars,
                   persona_vars,
                   main_vars>>

\* extract_keywords(first_text, max_keywords)
ExtractKeywords ==
    /\ phase = "texts"
    /\ found_keywords = << >>
    /\ \E k \in 0..MaxKeywords :
          /\ keyword_limit' = k
          /\ found_keywords' = <<extract_keywords(first_text, k)>>
    /\ UNCHANGED <<phase, persona_context, first_text, second_text, similarity,
                   similarity_swapped, found_again, rank_vars, extract_vars,
                   persona_vars,
                   main_vars>>

\* extract_keywords(' '.join(keywords), max_keywords) on the list it returned
ExtractKeywordsAgain ==
    /\ phase = "texts"
    /\ found_keywords # << >>
    /\ found_again = << >>
    /\ found_again' = <<extract_keywords(join(SP, found_keywords[1]), keyword_limit)>>
    /\ UNCHANGED <<phase, persona_context, first_text, second_text, similarity,
                   similarity_swapped, keyword_limit, found_keywords, rank_vars, extract_vars,
                   persona_vars,
                   main_vars>>

NextUtils == CalculateTextSimilarity \/ ExtractKeywords \/ ExtractKeywordsAgain

SpecUtils == InitUtils /\ [][NextUtils]_vars

-----------------------------------------------------------------------------
(* Claims about the text utilities                                          *)

\* C12: calculate_text_similarity(a, a) is 1.0 for every non-empty text a
C12_Original ==
    (similarity # -1 /\ first_text = second_text /\ first_text # << >>)
        => similarity = Scale

\* C13: calculate_text_similarity gives the same value for (a, b) and (b, a),
\* a value between 0 and 1, and 0 when a or b is the empty text
C13_SymmetricBounded ==
    similarity # -1 =>
        /\ similarity = similarity_swapped
        /\ 0 <= similarity /\ similarity <= Scale
        /\ (first_text = << >> \/ second_text = << >>) => similarity = 0

\* two different texts that share some but not all of their words
C13_Witness ==
    /\ similarity # -1
    /\ first_text # second_text
    /\ 0 < similarity /\ similarity < Scale
    /\ Range(findall_words(lower(first_text))) # Range(findall_words(lower(second_text)))

\* the candidate terms of C14 as stated: the lower-cased alphabetic runs of
\* at least 3 characters that are not stop words
Candidates3 ==
    SelectSeq(findall_words(lower(first_text)), LAMBDA w : w \notin stop_words)

\* how often a term occurs among the candidate terms
Frequency(term) ==
    Cardinality({i \in 1..Len(Candidates3) : Candidates3[i] = term})

\* the position of the first occurrence of a term among the candidate terms
FirstSeen(term) ==
    CHOOSE i \in 1..Len(Candidates3) :
        Candidates3[i] = term /\ \A j \in 1..(i - 1) : Candidates3[j] # term

\* the result of extract_keywords holds the first max_k of the candidate
\* terms in the order of C14: no term twice, at most max_k terms, the more
\* frequent term first and of two equally frequent terms the one seen first,
\* and a candidate term is left out only for terms that precede it
OrderedTopOf(result, limit) ==
    /\ Len(result) <= limit
    /\ \A i \in 1..Len(result) : result[i] \in Range(Candidates3)
    /\ \A i, j \in 1..Len(result) : i < j =>
          /\ result[i] # result[j]
          /\ \/ Frequency(result[i]) > Frequency(result[j])
             \/ /\ Frequency(result[i]) = Frequency(result[j])
                /\ FirstSeen(result[i]) < FirstSeen(result[j])
    /\ Len(result) = Min(limit, Cardinality(Range(Candidates3)))
    /\ \A t \in Range(Candidates3) \ Range(result) : \A i \in 1..Len(result) :
          \/ Frequency(result[i]) > Frequency(t)
          \/ Frequency(result[i]) = Frequency(t) /\ FirstSeen(result[i]) < FirstSeen(t)

\* C14: extract_keywords(text, max_k) returns at most max_k distinct
\* lower-cased terms, taken from the alphabetic runs of at least 3 characters
\* that are not stop words, the more frequent first and equally frequent ones
\* in the order of their first occurrence
C14_Original ==
    found_keywords # << >> => OrderedTopOf(found_keywords[1], keyword_limit)

\* the space-separated tokens of the first text are lower-case words that are
\* not stop words
LowerCaseTokens ==
    /\ first_text # << >>
    /\ \A t \in Range(split_on(first_text, " ")) :
          /\ t # << >>
          /\ \A k \in 1..Len(t) : IsLetter(t[k]) /\ lower(t) = t
          /\ t \notin stop_words

\* C15: for a text of lower-case tokens that are not stop words, the keywords
\* of the space-joined result of extract_keywords(text, max_k) are the same
\* list in the same order
C15_Idempotent ==
    (found_again # << >> /\ LowerCaseTokens) => found_again[1] = found_keywords[1]

\* the first call reordered two keywords by frequency, and the second call
\* on the joined result returned them unchanged
C15_Witness ==
    /\ found_again # << >>
    /\ LowerCaseTokens
    /\ Len(found_keywords[1]) = 2
    /\ found_keywords[1][1] # split_on(first_text, " ")[1]
    /\ found_keywords[1][2] = split_on(first_text, " ")[1]
    /\ found_again[1] = found_keywords[1]

-----------------------------------------------------------------------------
(* The job intent of a persona analysis                                     *)

\* re.sub(r'\s+', ' ', text): every run of whitespace becomes one space
collapse_whitespace(text) ==
    LET Of(kept) ==
            ListOf([k \in 1..Len(kept) |->
                       IF text[kept[k]] \in Whitespace THEN " " ELSE text[kept[k]]],
                   Len(kept))
    IN  Of(SortedSeq({i \in 1..Len(text) :
                         text[i] \notin Whitespace \/ i = 1 \/ text[i - 1] \notin Whitespace}))

\* the text is a number between optional whitespace: what ^\s*\d+\s*$ matches
\* in a text without line breaks
IsStandaloneNumber(text) ==
    /\ \E i \in 1..Len(text) : text[i] \in Digits
    /\ \A i \in 1..Len(text) : text[i] \in Digits \cup Whitespace
    /\ \A i, j \in 1..Len(text) :
          (i < j /\ text[i] \in Digits /\ text[j] \in Digits)
             => \A m \in i..j : text[m] \in Digits

\* the last position of the digits that start at position p, p - 1 when
\* there is no digit at p
DigitsEnd(text, p) ==
    MaxOf({e \in (p - 1)..Len(text) : \A m \in p..e : text[m] \in Digits})

\* match.end() of ^Page \d+ of \d+ in a text without line breaks, 0 when the
\* text does not start with it
PageOfEnd(text) ==
    LET Second(e) == IF e >= 6 /\ StandsAt(text, e + 1, <<" ","o","f"," ">>)
                        /\ DigitsEnd(text, e + 5) >= e + 5
                     THEN DigitsEnd(text, e + 5) ELSE 0
    IN  IF startswith(text, <<"P","a","g","e"," ">>) THEN Second(DigitsEnd(text, 6)) ELSE 0

\* clean_text(text) after the runs of whitespace were collapsed: the page
\* numbers and the 'Page n of m' prefix are removed and the text is stripped;
\* the substitutions for hyphens at line ends, quotation marks and repeated
\* line breaks find nothing in a text whose whitespace is single spaces
clean_collapsed(text) ==
    LET Standalone(t) == IF IsStandaloneNumber(t) THEN << >> ELSE t
        PageOf(t) == Standalone(SubSeq(t, PageOfEnd(t) + 1, Len(t)))
        PageNumber(t) ==
            IF IsStandaloneNumber(t) /\ t[1] \in Digits THEN << >> ELSE PageOf(t)
    IN  strip(PageNumber(text))

\* clean_text(text)
clean_text(text) ==
    IF text = << >> THEN << >> ELSE clean_collapsed(collapse_whitespace(text))

\* intent_patterns without the trigger words 'study', 'learn' and
\* 'understand'
intent_patterns_without_study == <<
    <<"comprehensive_review",
      << <<"c","o","m","p","r","e","h","e","n","s","i","v","e">>,
         <<"c","o","m","p","l","e","t","e">>,
         <<"t","h","o","r","o","u","g","h">>,
         <<"d","e","t","a","i","l","e","d">>,
         <<"f","u","l","l">>,
         <<"e","x","t","e","n","s","i","v","e">>,
         <<"i","n","-","d","e","p","t","h">> >> >>,
    <<"summary",
      << <<"s","u","m","m","a","r","i","z","e">>,
         <<"o","v","e","r","v","i","e","w">>,
         <<"b","r","i","e","f">>,
         <<"k","e","y"," ","p","o","i","n","t","s">>,
         <<"m","a","i","n">>,
         <<"h","i","g","h","l","i","g","h","t","s">>,
         <<"s","y","n","o","p","s","i","s">> >> >>,
    <<"comparison",
      << <<"c","o","m","p","a","r","e">>,
         <<"c","o","n","t","r","a","s","t">>,
         <<"v","e","r","s","u","s">>,
         <<"d","i","f","f","e","r","e","n","c","e">>,
         <<"s","i","m","i","l","a","r">>,
         <<"e","v","a","l","u","a","t","e">>,
         <<"a","s","s","e","s","s","m","e","n","t">> >> >>,
    <<"analysis",
      << <<"a","n","a","l","y","z","e">>,
         <<"e","x","a","m","i","n","e">>,
         <<"e","v","a","l","u","a","t","e">>,
         <<"a","s","s","e","s","s">>,
         <<"i","n","v","e","s","t","i","g","a","t","e">>,
         <<"r","e","s","e","a","r","c","h">> >> >>,
    <<"extraction",
      << <<"e","x","t","r","a","c","t">>,
         <<"i","d","e","n","t","i","f","y">>,
         <<"f","i","n","d">>,
         <<"l","o","c","a","t","e">>,
         <<"l","i","s","t">>,
         <<"c","o","l","l","e","c","t">>,
         <<"g","a","t","h","e","r">> >> >>,
    <<"preparation",
      << <<"p","r","e","p","a","r","e">>,
         <<"r","e","v","i","e","w">>,
         <<"p","l","a","n">>,
         <<"d","e","v","e","l","o","p">>,
         <<"c","r","e","a","t","e">>,
         <<"d","e","s","i","g","n">> >> >>,
    <<"implementation",
      << <<"i","m","p","l","e","m","e","n","t">>,
         <<"e","x","e","c","u","t","e">>,
         <<"a","p","p","l","y">>,
         <<"b","u","i","l","d">>,
         <<"c","o","n","s","t","r","u","c","t">>,
         <<"d","e","v","e","l","o","p">> >> >>,
    <<"optimization",
      << <<"o","p","t","i","m","i","z","e">>,
         <<"i","m","p","r","o","v","e">>,
         <<"e","n","h","a","n","c","e">>,
         <<"m","a","x","i","m","i","z","e">>,
         <<"m","i","n","i","m","i","z","e">>,
         <<"s","t","r","e","a","m","l","i","n","e">> >> >> >>

\* PersonaAnalyzer.intent_patterns, in the order of the dictionary: each
\* label with its trigger words
intent_patterns == <<
    <<"comprehensive_review",
      << <<"c","o","m","p","r","e","h","e","n","s","i","v","e">>,
         <<"c","o","m","p","l","e","t","e">>,
         <<"t","h","o","r","o","u","g","h">>,
         <<"d","e","t","a","i","l","e","d">>,
         <<"f","u","l","l">>,
         <<"e","x","t","e","n","s","i","v","e">>,
         <<"i","n","-","d","e","p","t","h">> >> >>,
    <<"summary",
      << <<"s","u","m","m","a","r","i","z","e">>,
         <<"o","v","e","r","v","i","e","w">>,
         <<"b","r","i","e","f">>,
         <<"k","e","y"," ","p","o","i","n","t","s">>,
         <<"m","a","i","n">>,
         <<"h","i","g","h","l","i","g","h","t","s">>,
         <<"s","y","n","o","p","s","i","s">> >> >>,
    <<"comparison",
      << <<"c","o","m","p","a","r","e">>,
         <<"c","o","n","t","r","a","s","t">>,
         <<"v","e","r","s","u","s">>,
         <<"d","i","f","f","e","r","e","n","c","e">>,
         <<"s","i","m","i","l","a","r">>,
         <<"e","v","a","l","u","a","t","e">>,
         <<"a","s","s","e","s","s","m","e","n","t">> >> >>,
    <<"analysis",
      << <<"a","n","a","l","y","z","e">>,
         <<"e","x","a","m","i","n","e">>,
         <<"e","v","a","l","u","a","t","e">>,
         <<"a","s","s","e","s","s">>,
         <<"i","n","v","e","s","t","i","g","a","t","e">>,
         <<"s","t","u","d","y">>,
         <<"r","e","s","e","a","r","c","h">> >> >>,
    <<"extraction",
      << <<"e","x","t","r","a","c","t">>,
         <<"i","d","e","n","t","i","f","y">>,
         <<"f","i","n","d">>,
         <<"l","o","c","a","t","e">>,
         <<"l","i","s","t">>,
         <<"c","o","l","l","e","c","t">>,
         <<"g","a","t","h","e","r">> >> >>,
    <<"preparation",
      << <<"p","r","e","p","a","r","e">>,
         <<"s","t","u","d","y">>,
         <<"l","e","a","r","n">>,
         <<"u","n","d","e","r","s","t","a","n","d">>,
         <<"r","e","v","i","e","w">>,
         <<"p","l","a","n">>,
         <<"d","e","v","e","l","o","p">>,
         <<"c","r","e","a","t","e">>,
         <<"d","e","s","i","g","n">> >> >>,
    <<"implementation",
      << <<"i","m","p","l","e","m","e","n","t">>,
         <<"e","x","e","c","u","t","e">>,
         <<"a","p","p","l","y">>,
         <<"b","u","i","l","d">>,
         <<"c","o","n","s","t","r","u","c","t">>,
         <<"d","e","v","e","l","o","p">> >> >>,
    <<"optimization",
      << <<"o","p","t","i","m","i","z","e">>,
         <<"i","m","p","r","o","v","e">>,
         <<"e","n","h","a","n","c","e">>,
         <<"m","a","x","i","m","i","z","e">>,
         <<"m","i","n","i","m","i","z","e">>,
         <<"s","t","r","e","a","m","l","i","n","e">> >> >> >>

\* the labels of the table one of whose trigger words occurs in the text, as
\* their positions in the table
MatchingIntents(job_lower, table) ==
    {i \in 1..Len(table) : \E k \in 1..Len(table[i][2]) : Contains(job_lower, table[i][2][k])}

\* any(verb in job_lower for verb in verbs)
AnyVerb(job_lower, verbs) == \E v \in verbs : Contains(job_lower, v)

\* the label of the last entry of the table one of whose trigger words occurs
\* in the job
intent_of_last_match(job_description) ==
    LET Fallback(job_lower) ==
            IF AnyVerb(job_lower, {<<"p","r","e","p","a","r","e">>, <<"c","r","e","a","t","e">>, <<"w","r","i","t","e">>})
            THEN "preparation"
            ELSE IF AnyVerb(job_lower, {<<"u","n","d","e","r","s","t","a","n","d">>, <<"l","e","a","r","n">>, <<"s","t","u","d","y">>})
            THEN "learning"
            ELSE "analysis"
        First(job_lower, table, matching) ==
            IF matching # {} THEN table[MaxOf(matching)][1] ELSE Fallback(job_lower)
        Of(job_lower, table) == First(job_lower, table, MatchingIntents(job_lower, table))
    IN  Of(lower(job_description), intent_patterns)

\* PersonaAnalyzer._analyze_job_intent(job_description)
_analyze_job_intent(job_description) ==
    LET Fallback(job_lower) ==
            IF AnyVerb(job_lower, {<<"p","r","e","p","a","r","e">>, <<"c","r","e","a","t","e">>, <<"w","r","i","t","e">>})
            THEN "preparation"
            ELSE IF AnyVerb(job_lower, {<<"u","n","d","e","r","s","t","a","n","d">>, <<"l","e","a","r","n">>, <<"s","t","u","d","y">>})
            THEN "learning"
            ELSE "analysis"
        First(job_lower, table, matching) ==
            IF matching # {} THEN table[MinOf(matching)][1] ELSE Fallback(job_lower)
        Of(job_lower, table) == First(job_lower, table, MatchingIntents(job_lower, table))
    IN  Of(lower(job_description), intent_patterns)

MaxJobWords == 2

\* the words the jobs are made of: trigger words of several labels, the verbs
\* of the fallback, words that contain a trigger word, and words without one
JobWords == {<<"A","n","a","l","y","z","e">>,
             <<"c","o","m","p","a","r","e">>,
             <<"s","u","m","m","a","r","i","z","e">>,
             <<"s","t","u","d","y">>,
             <<"l","e","a","r","n">>,
             <<"u","n","d","e","r","s","t","a","n","d">>,
             <<"w","r","i","t","e">>,
             <<"m","a","i","n","t","a","i","n">>,
             <<"r","e","v","e","n","u","e">>,
             <<"k","e","y">>,
             <<"p","o","i","n","t","s">>,
             <<"1","2">>,
             <<"d","e","v","e","l","o","p">>,
             <<"o","p","t","i","m","i","z","e">>,
             <<"f","u","l","l">>}

\* the job of the integration test
TestJob == <<"A","n","a","l","y","z","e"," ","r","e","v","e","n","u","e"," ","t","r","e","n","d","s"," ","a","n","d"," ","m","a","r","k","e","t"," ","p","o","s","i","t","i","o","n","i","n","g"," ","s","t","r","a","t","e","g","i","e","s">>

\* the jobs handed to analyze_persona: up to MaxJobWords words separated by
\* spaces or line breaks, and the job of the integration test
Jobs ==
    {join(sep, ws) : sep \in {SP, NL}, ws \in SeqsUpTo(JobWords, MaxJobWords) \ {<< >>}}
        \cup {TestJob}

InitPersona ==
    /\ NoMain
    /\ phase = "job"
    /\ persona_context = AnalystContext
    /\ job_to_be_done \in Jobs
    /\ job_clean = << >>
    /\ job_intent = ""
    /\ context_runs = << >>
    /\ NoRanking
    /\ NoExtraction
    /\ NoUtils

\* analyze_persona's way from the job string to the job_intent: clean_text,
\* then _analyze_job_intent
AnalyzeJobIntent ==
    /\ phase = "job"
    /\ phase' = "analysed"
    /\ job_clean' = <<clean_text(job_to_be_done)>>
    /\ job_intent' = _analyze_job_intent(clean_text(job_to_be_done))
    /\ UNCHANGED <<persona_context, job_to_be_done, context_runs, rank_vars, extract_vars,
                   utils_vars,
                   main_vars>>

NextPersona == AnalyzeJobIntent

SpecPersona == InitPersona /\ [][NextPersona]_vars

\* the labels of intent_patterns one of whose trigger words occurs in the
\* lower-cased job text, as their positions in the table order
LabelsWithTrigger ==
    {i \in 1..Len(intent_patterns) :
        \E k \in 1..Len(intent_patterns[i][2]) :
            Contains(lower(job_clean[1]), intent_patterns[i][2][k])}

\* the eight labels in the order of the table
IntentLabels == <<"comprehensive_review", "summary", "comparison", "analysis",
                  "extraction", "preparation", "implementation", "optimization">>

\* C16: the job intent is the first label in table order one of whose trigger
\* words occurs in the lower-cased job text, also when trigger words of
\* several labels occur, and the job of the integration test resolves to
\* analysis
C16_FirstLabelWins ==
    job_intent # "" =>
        /\ LabelsWithTrigger # {} =>
              job_intent = IntentLabels[MinOf(LabelsWithTrigger)]
        /\ job_to_be_done = TestJob => job_intent = "analysis"

\* trigger words of two labels occur, the one of the later label first in the
\* text, and the earlier label of the table is the intent
C16_Witness ==
    /\ job_intent = "comparison"
    /\ job_clean = <<<<"A","n","a","l","y","z","e"," ","c","o","m","p","a","r","e">>>>
    /\ LabelsWithTrigger = {3, 4}

\* C17: for every job string the job_intent of the PersonaContext is one of
\* the eight labels of the table; no other label, such as 'learning', is
\* produced
C17_EightLabels ==
    job_intent # "" => job_intent \in Range(IntentLabels)

\* a job with a verb of the fallback for 'learning' got a label of the table
C17_Witness ==
    /\ job_clean = <<<<"u","n","d","e","r","s","t","a","n","d"," ","r","e","v","e","n","u","e">>>>
    /\ job_intent = "preparation"

-----------------------------------------------------------------------------
(* Claims about the tiers of _extract_page_sections                         *)

\* the sections of the k-th page among the sections extracted so far
SectionsOfPage(k) ==
    SelectSeq(extracted_sections, LAMBDA section : section.page_number = k)

\* the record of the tiers agrees with the sections extract_sections got
\* from _extract_page_sections
TiersAgree ==
    /\ Len(page_tiers) = page_index
    /\ \A k \in 1..Len(page_tiers) : page_tiers[k].sections = SectionsOfPage(k)

\* C18: a candidate (title, content) of any of the three tiers becomes a
\* section of the result of extract_sections exactly when its body has at
\* least 100 characters and its relevance score is at least 0.01; a
\* candidate counts as a section of the result when the result has a section
\* of its page with its body, under whatever title
C18_Original ==
    phase = "extracted document" =>
        \A k \in 1..Len(page_tiers) : \A i \in 1..Len(page_tiers[k].candidates) :
            (/\ page_tiers[k].candidates[i].made # << >>
             /\ \E j \in 1..Len(filtered_sections) :
                   /\ filtered_sections[j].page_number = page_tiers[k].page_number
                   /\ filtered_sections[j].content = page_tiers[k].candidates[i].made[1].content)
            <=> (/\ Len(page_tiers[k].candidates[i].content) >= 100
                 /\ page_tiers[k].candidates[i].made # << >>
                 /\ page_tiers[k].candidates[i].made[1].relevance_score >= Scale \div 100)

\* C19: on each page the tiers run in the order heading, paragraph, whole
\* page; the paragraph tier runs only when the heading tier produced fewer
\* than 2 sections, the whole-page tier only when the earlier tiers produced
\* fewer than 2 sections in total, and no later tier runs once the page has 2
\* or more sections
C19_TierOrder ==
    \A k \in 1..Len(page_tiers) :
        /\ SectionsOfPage(k)
              = page_tiers[k].heading \o page_tiers[k].paragraph \o page_tiers[k].page
        /\ page_tiers[k].paragraph_ran => Len(page_tiers[k].heading) < 2
        /\ page_tiers[k].page_ran
              => Len(page_tiers[k].heading) + Len(page_tiers[k].paragraph) < 2
        /\ Len(page_tiers[k].heading) >= 2
              => ~page_tiers[k].paragraph_ran /\ ~page_tiers[k].page_ran
        /\ Len(page_tiers[k].heading) + Len(page_tiers[k].paragraph) >= 2
              => ~page_tiers[k].page_ran
        /\ ~page_tiers[k].paragraph_ran => page_tiers[k].paragraph = << >>
        /\ ~page_tiers[k].page_ran => page_tiers[k].page = << >>

\* a document with a page whose two headings stopped the later tiers, and a
\* page without headings whose section comes from the whole-page tier
C19_Witness ==
    /\ \E k \in 1..Len(page_tiers) :
          /\ Len(page_tiers[k].heading) = 2
          /\ ~page_tiers[k].paragraph_ran
          /\ Len(SectionsOfPage(k)) = 2
    /\ \E k \in 1..Len(page_tiers) :
          /\ page_tiers[k].paragraph_ran
          /\ page_tiers[k].page_ran
          /\ Len(SectionsOfPage(k)) = 1

\* the full text of a page, capped to the maximum section length: cut at
\* max_section_length characters, with or without the dots the code appends
CappedTexts(text) ==
    IF Len(text) <= max_section_length THEN {text}
    ELSE {SubSeq(text, 1, max_section_length),
          SubSeq(text, 1, max_section_length) \o <<".", ".", ".">>}

\* C20: when neither the heading tier nor the paragraph tier produces a
\* section for a page, _extract_page_sections emits exactly one section for
\* it, titled "Page Content", whose body is the full page text capped to the
\* maximum section length
C20_Original ==
    \A k \in 1..Len(page_tiers) :
        (page_tiers[k].heading = << >> /\ page_tiers[k].paragraph = << >>)
        => /\ Len(SectionsOfPage(k)) = 1
           /\ SectionsOfPage(k)[1].section_title
                 = <<"P","a","g","e"," ","C","o","n","t","e","n","t">>
           /\ SectionsOfPage(k)[1].content \in CappedTexts(current_document.pages[k].text)

-----------------------------------------------------------------------------
(* Two runs of analyze_persona on the same persona and job                  *)

\* the persona of the runs
AnalystPersona == <<"A","n","a","l","y","s","t">>

\* list(set(items)): the distinct items in the order in which the set
\* yields them, which for strings depends on the hash seed of the process;
\* every order is one the interpreter can produce
ListsOfSet(items) ==
    {order \in [1..Cardinality(Range(items)) -> Range(items)] :
        \A i, j \in DOMAIN order : order[i] = order[j] => i = j}

\* items[:n]
Take(items, n) == SubSeq(items, 1, Min(n, Len(items)))

\* _extract_job_keywords(job_description) of an analyzer without spaCy model:
\* the lists it can return
_extract_job_keywords(job_description) ==
    {Take(order, 20) : order \in ListsOfSet(extract_keywords(job_description, 15))}

\* _determine_priority_topics(persona, job_description, domain) of an analyzer
\* without spaCy model: the lists it can return
_determine_priority_topics(persona, job_description) ==
    {Take(SelectSeq(order, LAMBDA topic : Len(topic) > 2), 20) :
        order \in ListsOfSet(lower_all(extract_keywords(persona \o SP \o job_description, 15)))}

InitRuns ==
    /\ NoMain
    /\ phase = "runs"
    /\ persona_context = AnalystContext
    /\ job_to_be_done \in TextsUpTo(MaxJobWords)
    /\ job_clean = << >>
    /\ job_intent = ""
    /\ context_runs = << >>
    /\ NoRanking
    /\ NoExtraction
    /\ NoUtils

\* one run of analyze_persona on the persona and the job, in a process of
\* its own: the job keywords and the priority topics of its PersonaContext
AnalyzePersonaRun ==
    /\ phase = "runs"
    /\ Len(context_runs) < 2
    /\ \E keywords \in _extract_job_keywords(clean_text(job_to_be_done)),
          topics \in _determine_priority_topics(clean_text(AnalystPersona),
                                                clean_text(job_to_be_done)) :
          context_runs' = Append(context_runs,
                                 [job_keywords |-> keywords, priority_topics |-> topics])
    /\ UNCHANGED <<phase, persona_context, job_to_be_done, job_clean, job_intent,
                   rank_vars, extract_vars, utils_vars,
                   main_vars>>

NextRuns == AnalyzePersonaRun

SpecRuns == InitRuns /\ [][NextRuns]_vars

\* C8: two runs on the same persona and job build the same PersonaContext,
\* with the same elements in the same order in job_keywords and
\* priority_topics
C8_Original ==
    Len(context_runs) = 2 => context_runs[1] = context_runs[2]

-----------------------------------------------------------------------------
(* main.py: one run from the arguments to the output                        *)

\* bound: the most pages of a PDF file
MaxPdfPages == 2

\* the PDF files a documents directory can hold
PdfNames == <<DocNames[1], DocNames[2]>>

\* what a page of a PDF file does to the run: "text" is ingested and its
\* sections are extracted; on "unreadable" the ingestion of the page raises;
\* "breaks extraction" is ingested and _extract_page_sections raises on it
PageKinds == {"text", "unreadable", "breaks extraction"}

\* the documents directories: up to Len(PdfNames) files of up to MaxPdfPages
\* pages each
Directories == SeqsUpTo(SeqsUpTo(PageKinds, MaxPdfPages), Len(PdfNames))

\* _process_single_document(pdf_file): the pages whose ingestion did not
\* raise, with their page numbers; None, the empty list, for a file that is
\* left without page
_process_single_document(file, pages) ==
    LET Kept(numbers) ==
            IF numbers = << >> THEN << >>
            ELSE << [filename |-> PdfNames[file],
                     pages |-> ListOf([k \in 1..Len(numbers) |->
                                          [page_number |-> numbers[k], kind |-> pages[numbers[k]]]],
                                      Len(numbers))] >>
    IN  Kept(SortedSeq({n \in 1..Len(pages) : pages[n] # "unreadable"}))

\* load_documents(documents_dir, max_docs): the documents of the first
\* max_docs files, without the files that gave None
load_documents(files, max_docs) ==
    Concat(ListOf([i \in 1..Min(max_docs, Len(files)) |-> _process_single_document(i, files[i])],
                  Min(max_docs, Len(files))))

InitMain ==
    /\ phase = "arguments"
    /\ persona_context = AnalystContext
    /\ arguments \in [persona : {<< >>, AnalystPersona},
                      job : {<< >>, TestJob},
                      files : Directories]
    /\ loaded_documents = << >>
    /\ document_index = 0
    /\ core_sections = << >>
    /\ ranking_input = << >>
    /\ steps_done = {}
    /\ outcome = "running"
    /\ calls = << >>
    /\ NoRanking
    /\ NoExtraction
    /\ NoUtils
    /\ NoPersona

\* main: the validation of the arguments; parser.error exits the process
ValidateArguments ==
    /\ phase = "arguments"
    /\ IF arguments.persona = << >> \/ arguments.job = << >>
       THEN phase' = "exited" /\ outcome' = "usage error"
       ELSE phase' = "loading" /\ outcome' = outcome
    /\ UNCHANGED <<persona_context, arguments, loaded_documents, document_index, core_sections,
                   ranking_input, steps_done, calls, rank_vars, extract_vars, utils_vars, persona_vars>>

\* main: documents = document_processor.load_documents(...)
LoadDocuments ==
    /\ phase = "loading"
    /\ loaded_documents' = load_documents(arguments.files, 10)
    /\ steps_done' = steps_done \cup {"load_documents"}
    /\ calls' = Append(calls, "load_documents")
    /\ phase' = "loaded"
    /\ UNCHANGED <<persona_context, arguments, document_index, core_sections, ranking_input,
                   outcome, rank_vars, extract_vars, utils_vars, persona_vars>>

\* main: if not documents: logger.error(...); return
NoDocumentsFound ==
    /\ phase = "loaded"
    /\ loaded_documents = << >>
    /\ outcome' = "returned"
    /\ phase' = "exited"
    /\ UNCHANGED <<persona_context, arguments, loaded_documents, document_index, core_sections,
                   ranking_input, steps_done, calls, rank_vars, extract_vars, utils_vars, persona_vars>>

\* main: persona_context = persona_analyzer.analyze_persona(...)
AnalyzePersona ==
    /\ phase = "loaded"
    /\ loaded_documents # << >>
    /\ steps_done' = steps_done \cup {"analyze_persona"}
    /\ calls' = Append(calls, "analyze_persona")
    /\ phase' = "extracting sections"
    /\ UNCHANGED <<persona_context, arguments, loaded_documents, document_index, core_sections,
                   ranking_input, outcome, rank_vars, extract_vars, utils_vars, persona_vars>>

\* main: one turn of the loop over the documents; an exception of
\* extract_sections leaves the loop, main logs it and raises it again
ExtractDocumentSections ==
    /\ phase = "extracting sections"
    /\ document_index < Len(loaded_documents)
    /\ steps_done' = steps_done \cup {"extract_sections"}
    /\ calls' = Append(calls, "extract_sections")
    /\ IF \E k \in 1..Len(loaded_documents[document_index + 1].pages) :
             loaded_documents[document_index + 1].pages[k].kind = "breaks extraction"
       THEN /\ outcome' = "raised"
            /\ phase' = "exited"
            /\ UNCHANGED <<document_index, core_sections>>
       ELSE /\ core_sections' = core_sections \o
                   [k \in 1..Len(loaded_documents[document_index + 1].pages) |->
                       <<loaded_documents[document_index + 1].filename,
                         loaded_documents[document_index + 1].pages[k].page_number>>]
            /\ document_index' = document_index + 1
            /\ UNCHANGED <<phase, outcome>>
    /\ UNCHANGED <<persona_context, arguments, loaded_documents, ranking_input,
                   rank_vars, extract_vars, utils_vars, persona_vars>>

\* main with the ranking inside the loop over the documents: rank_sections
\* is called as soon as the sections of one document are there
RankInsideLoop ==
    /\ phase = "extracting sections"
    /\ document_index >= 1
    /\ ranking_input' = <<core_sections>>
    /\ steps_done' = steps_done \cup {"rank_sections"}
    /\ calls' = Append(calls, "rank_sections")
    /\ phase' = "selecting"
    /\ UNCHANGED <<persona_context, arguments, loaded_documents, document_index, core_sections,
                   outcome, rank_vars, extract_vars, utils_vars, persona_vars>>

\* main: ranked_sections = ranking_engine.rank_sections(extracted_sections, ...)
RankExtractedSections ==
    /\ phase = "extracting sections"
    /\ document_index = Len(loaded_documents)
    /\ ranking_input' = <<core_sections>>
    /\ steps_done' = steps_done \cup {"rank_sections"}
    /\ calls' = Append(calls, "rank_sections")
    /\ phase' = "selecting"
    /\ UNCHANGED <<persona_context, arguments, loaded_documents, document_index, core_sections,
                   outcome, rank_vars, extract_vars, utils_vars, persona_vars>>

\* main: top_sections = ranking_engine.filter_top_sections(ranked_sections, ...)
SelectTopSections ==
    /\ phase = "selecting"
    /\ steps_done' = steps_done \cup {"filter_top_sections"}
    /\ calls' = Append(calls, "filter_top_sections")
    /\ phase' = "writing"
    /\ UNCHANGED <<persona_context, arguments, loaded_documents, document_index, core_sections,
                   ranking_input, outcome, rank_vars, extract_vars, utils_vars, persona_vars>>

\* main: the output is generated and saved
WriteOutput ==
    /\ phase = "writing"
    /\ steps_done' = steps_done \cup {"generate_output"}
    /\ calls' = Append(calls, "generate_output")
    /\ outcome' = "completed"
    /\ phase' = "exited"
    /\ UNCHANGED <<persona_context, arguments, loaded_documents, document_index, core_sections,
                   ranking_input, rank_vars, extract_vars, utils_vars, persona_vars>>

NextMain ==
    \/ ValidateArguments
    \/ LoadDocuments
    \/ NoDocumentsFound
    \/ AnalyzePersona
    \/ ExtractDocumentSections
    \/ RankExtractedSections
    \/ SelectTopSections
    \/ WriteOutput

SpecMain == InitMain /\ [][NextMain]_vars

\* C9: a request with an empty or missing persona, an empty or missing job or
\* an empty document set is rejected with an error before any processing: no
\* component is called for it, and the run ends in an error
C9_Original ==
    (phase # "arguments"
     /\ (arguments.persona = << >> \/ arguments.job = << >> \/ arguments.files = << >>))
    => /\ steps_done = {}
       /\ outcome # "running" => outcome \in {"usage error", "raised"}

\* the pages of the directory of the given kinds, each as <<file, page number>>
PagesOfKind(kinds) ==
    UNION {{<<PdfNames[i], n>> : n \in {m \in 1..Len(arguments.files[i]) :
                                           arguments.files[i][m] \in kinds}}
              : i \in 1..Len(arguments.files)}

\* C10: when the processing of a page raises, during its ingestion or during
\* the extraction of its sections, the other pages and documents are still
\* processed and the sections of the unaffected pages reach the ranking and
\* the output
C10_Original ==
    (/\ phase = "exited"
     /\ arguments.persona # << >>
     /\ arguments.job # << >>
     /\ PagesOfKind({"unreadable", "breaks extraction"}) # {})
    => \A page \in PagesOfKind({"text"}) :
          /\ outcome = "completed"
          /\ ranking_input # << >>
          /\ page \in Range(ranking_input[1])

-----------------------------------------------------------------------------
(* Further claims about ranking and selection                               *)

\* the surviving sections that filter_top_sections did not return
LeftOut == SelectSeq(Survivors, LAMBDA s : s \notin Range(top_sections))

SumOfAppliedWeights ==
    weights.relevance + weights.diversity + weights.coverage
    + weights.section_type + weights.length

\* C22: the five weights that multiply relevance, diversity bonus, coverage
\* score, section-type score and length score in the final score sum to
\* exactly 1.0.
C22_Original ==
    phase = "ranked" => SumOfAppliedWeights = 100

Occurrences(list, x) == Cardinality({i \in DOMAIN list : list[i] = x})

\* the ExtractedSections that a list of RankedSections wraps
Wrapped(list) == [i \in DOMAIN list |-> AsSection(list[i])]

\* C25: rank_sections returns one RankedSection per input Section, a
\* permutation of the batch, each carrying the Section's document, page
\* number, title, body, preview, relevance score, word and character counts,
\* type and key concepts unchanged; it leaves the input Sections and the
\* PersonaContext as they were; filter_top_sections changes no field of a
\* RankedSection.
C25_WrapsWithoutChange ==
    /\ [](phase \in {"ranked", "selected"} =>
             /\ Len(ranked_sections) = Len(sections)
             /\ \A i \in DOMAIN sections :
                   Occurrences(Wrapped(ranked_sections), sections[i])
                       = Occurrences(sections, sections[i]))
    /\ [](phase = "selected" =>
             \A i \in DOMAIN top_sections :
                 Occurrences(top_sections, top_sections[i])
                     = Occurrences(ranked_sections, top_sections[i]))
    /\ [][/\ sections' = sections
          /\ persona_context' = persona_context
          /\ phase = "ranked" => ranked_sections' = ranked_sections]_vars

\* C25 witness: a batch with two equal sections and another one was ranked,
\* and a selection returned some of its RankedSections and not others
C25_Witness ==
    /\ phase = "selected"
    /\ \E i, j, k \in DOMAIN sections :
          i # j /\ sections[i] = sections[j] /\ sections[k] # sections[i]
    /\ top_sections # << >>
    /\ Len(top_sections) < Len(ranked_sections)

\* the importance_rank values of the list filter_top_sections returned
ReturnedRanks == {top_sections[i].importance_rank : i \in DOMAIN top_sections}

\* C27: the list returned by filter_top_sections carries the importance_rank
\* values 1..K, K the length of the list, also when document selection left
\* out sections that passed min_score.
C27_Original ==
    phase = "selected" => ReturnedRanks = 1..Len(top_sections)

\* C28: the list returned by filter_top_sections, applied to the output of
\* rank_sections, is in strictly increasing importance_rank order, also when
\* sections of different documents have equal final scores and document
\* selection is applied.
C28_Original ==
    phase = "selected" =>
        \A i, j \in DOMAIN top_sections :
            i < j => top_sections[i].importance_rank < top_sections[j].importance_rank

\* C29: filter_top_sections returns exactly min(max_sections, number of
\* sections that pass min_score) sections; the slots a document cannot fill
\* go to other documents that have surviving sections left.
C29_Original ==
    phase = "selected" => Len(top_sections) = Min(max_sections, Len(Survivors))

-----------------------------------------------------------------------------
(* Further claims about the extraction tiers                                *)

\* the tiers that added a section to the result of a page
TiersInResult(course) ==
    {tier \in {"heading", "paragraph", "page"} :
        \/ tier = "heading" /\ course.heading # << >>
        \/ tier = "paragraph" /\ course.paragraph # << >>
        \/ tier = "page" /\ course.page # << >>}

\* C30: all sections returned for one page come from a single extraction
\* tier: when the heading tier yields exactly one section and the paragraph
\* tier then runs, the result of the page does not hold both the heading
\* section and paragraph sections.
C30_Original ==
    \A k \in DOMAIN page_tiers : Cardinality(TiersInResult(page_tiers[k])) <= 1

\* the candidates of the tiers that ran on the pages done, of which a section
\* was made
MadeCandidates ==
    UNION {{page_tiers[k].candidates[n] : n \in {m \in DOMAIN page_tiers[k].candidates :
                                                    page_tiers[k].candidates[m].made # << >>}}
              : k \in DOMAIN page_tiers}

\* C24: in every tier, when the content of a candidate section is longer than
\* 2000 characters the body of the Section is its first 2000 characters
\* followed by "...", and when it is not longer the body is the content
\* unchanged, without a marker.
C24_Original ==
    \A c \in MadeCandidates :
        c.made[1].content = IF Len(c.found) > 2000
                            THEN SubSeq(c.found, 1, 2000) \o <<".", ".", ".">>
                            ELSE c.content

-----------------------------------------------------------------------------
(* Claims about the order of the calls of main                              *)

\* the positions of the calls of one component
CallsOf(component) == {i \in DOMAIN calls : calls[i] = component}

\* the pages of the loaded documents, each as <<file, page number>>, in the
\* order of the documents
PagesOfLoaded ==
    Concat(ListOf([d \in 1..Len(loaded_documents) |->
                      [k \in 1..Len(loaded_documents[d].pages) |->
                          <<loaded_documents[d].filename, loaded_documents[d].pages[k].page_number>>]],
                  Len(loaded_documents)))

\* C26: in every request rank_sections is called once, and only after
\* extract_sections has completed for every loaded document; it receives the
\* sections of all documents as one batch; filter_top_sections runs only
\* after the ranking, and the output is generated only after the selection.
C26_RankingBarrier ==
    /\ Cardinality(CallsOf("rank_sections")) <= 1
    /\ Cardinality(CallsOf("filter_top_sections")) <= 1
    /\ outcome = "completed" => Cardinality(CallsOf("rank_sections")) = 1
    /\ \A r \in CallsOf("rank_sections") :
          /\ Cardinality({e \in CallsOf("extract_sections") : e < r}) = Len(loaded_documents)
          /\ CallsOf("extract_sections") \subseteq 1..(r - 1)
          /\ ranking_input = <<PagesOfLoaded>>
    /\ \A f \in CallsOf("filter_top_sections") : \E r \in CallsOf("rank_sections") : r < f
    /\ \A g \in CallsOf("generate_output") : \E f \in CallsOf("filter_top_sections") : f < g

\* C26 witness: a run over two documents has completed
C26_Witness ==
    /\ outcome = "completed"
    /\ Len(loaded_documents) = 2
    /\ Cardinality(CallsOf("extract_sections")) = 2
    /\ CallsOf("generate_output") # {}

====
